---- MODULE Spec2Model ----
(***************************************************************************)
(* Sentra-Agent / sentra-emo: the NLP Cloud token pool and the logical     *)
(* external call of app/online.py, and the /analyze and /analyze/batch     *)
(* handlers of app/main.py with their backend selection.                   *)
(*                                                                         *)
(* Time is a non-decreasing integer clock `now` (time.time()).  Request    *)
(* handlers of app/main.py are `async def` functions that never await, so  *)
(* one logical external call runs to completion before the next starts;    *)
(* the clock may advance between any two steps of a call (an external      *)
(* attempt takes time).                                                    *)
(***************************************************************************)
EXTENDS Integers, Sequences, FiniteSets, TLC

\* ------------------------------------------------------------------ bounds
MaxTokens == 3
MaxTime == 2
MaxCooldown == 1
ScenarioEnd == 62

\* online.py:17 (and config.py:439): the default cooldown in seconds
DefaultCooldownSec == 60

VARIABLES
    now,                 \* time.time()
    cfg,                 \* get_nlpcloud_config(): [api_tokens, token_cooldown]
    token_tokens,        \* _token_tokens
    token_cooldowns,     \* _token_cooldowns, index 0..n-1
    token_index,         \* _token_index
    token_cooldown_sec,  \* _token_cooldown_sec
    pc,                  \* position of the logical call: idle, attempt, done
    it,                  \* iterations of `for _ in range(n_tokens)` started so far
    n_tokens,            \* n_tokens of _call_sentiment_api
    idx,                 \* idx of the attempt in flight
    last_error,          \* last_error of _call_sentiment_api
    outcome,             \* what the logical call returned or raised
    tried,               \* history: the token indices attempted by the current call
    result,              \* history: what the most recent client.sentiment returned or raised
    cooling_at_start,    \* history: every token was cooling when the current call started
    logged_exhausted,    \* history: the current call wrote the log record of online.py:228
    picked,              \* history: the most recent _pick_token call and what it gave
    marked,              \* history: the most recent _mark_token_rate_limited call, and whether
                         \* its token was still cooling
    last_mark,           \* history: per index, the time of its most recent mark
    op_parity,           \* history: flips at every operation, so that none is a stuttering step
    env,                 \* the settings main.py reads: EMO_BACKEND, EMO_ONLINE_PROVIDER and
                         \* the two model names of get_nlpcloud_config()
    req,                 \* main.py: the request being served
    rpc,                 \* main.py: position of the handler: none, text, combined, sentiment,
                         \* emotion (the last three: inside that external call), ended
    results,             \* main.py: number of texts of the request analysed so far
    http,                \* main.py: the response of the handler: status and detail
    cur,                 \* main.py: where sentiment and emotions_pairs of the current text came
                         \* from, its number of logical external calls, and user_state: unset
                         \* (None, no update tried), state (the store's answer), failed (None
                         \* after a failed update)
    touched,             \* history: the collaborators the request has used
    caught,              \* history: the errors the request caught and did not re-raise
    logged,              \* history: the caught errors for which a log record was written
    emotions_pairs,      \* main.py: the distribution before the minimum-score filter
    min_score,           \* main.py: get_emotion_min_score(), in tenths
    canon_pairs,         \* main.py: the distribution used for VAD, stress and the response
    inference_latencies_ms,  \* _metrics["inference_latencies_ms"]
    inference_count,     \* _metrics["inference_count"]
    emotion_top1_scores, \* _metrics["emotion_top1_scores"]
    emotion_top1_times,  \* _metrics["emotion_top1_times"]
    perf_counter,        \* time.perf_counter(): the number of readings taken so far
    values,              \* _percentile: the samples
    quantile,            \* _percentile: q, in hundredths
    percentile,          \* _percentile: what it returned: <<>> for None, else <<value>>
    at,                  \* per concurrent request: where it is, from absent (not sent) and
                         \* arrived (sent, its handler not yet started) to done or failed
    who,                 \* per concurrent request: its userid
    scan_start,          \* per concurrent request: `start` of its _pick_token call
    held,                \* per concurrent request: idx of its attempt in flight
    attempts,            \* per concurrent request: iterations of its logical call so far
    user_states,         \* the store: per user, the requests whose events it has applied
    seen,                \* per concurrent request: the user state its update has read
    overlapped,          \* history: some request had to wait while another was served
    raw_pairs,           \* _derive_sentiment_from_pairs: pairs, scores in tenths
    sentiment,           \* _derive_sentiment_from_pairs: the label and the scores returned
    run,                 \* history: the indices returned by the latest consecutive
                         \* _pick_token calls made while no token was cooling
    run_start,           \* history: the cursor before the first pick of `run`
    error_count,         \* _metrics["error_count"]
    top1_log,            \* history: the score given to _record_emotion_top1 at each
                         \* clock reading, the k-th entry for reading k
    batch_results,       \* analyze_batch: the local list `results`, one entry per text
                         \* analysed, with what the text left behind
    returned,            \* the results carried by the response
    at_receipt,          \* history: the metrics, the store and the cooldowns when the
                         \* request was received
    serving              \* the external attempts made for the current text

filterVars == <<emotions_pairs, min_score, canon_pairs>>
metricsVars == <<inference_latencies_ms, inference_count, emotion_top1_scores,
                 emotion_top1_times, perf_counter, error_count, top1_log>>
percentileVars == <<values, quantile, percentile>>
loopVars == <<at, who, scan_start, held, attempts, user_states, seen, overlapped>>
bucketVars == <<raw_pairs, sentiment>>
runVars == <<run, run_start>>
serveVars == <<batch_results, returned, at_receipt, serving>>
sideVars == <<metricsVars, percentileVars, loopVars, bucketVars, runVars, serveVars>>
mainVars == <<env, req, rpc, results, http, cur, touched, caught, logged, filterVars,
              sideVars>>

vars == <<now, cfg, token_tokens, token_cooldowns, token_index, token_cooldown_sec,
          pc, it, n_tokens, idx, last_error, outcome, tried, result,
          cooling_at_start, logged_exhausted, picked, marked, last_mark, op_parity,
          mainVars>>

poolVars == <<token_tokens, token_cooldowns, token_index, token_cooldown_sec>>
callVars == <<pc, it, n_tokens, idx, last_error, outcome, tried, result,
              cooling_at_start, logged_exhausted>>

\* ------------------------------------------------------------------ values
Max(a, b) == IF a >= b THEN a ELSE b

NoIndex == 0 - 1

\* An exception: its class, the phrases str(e) contains, and e.response.status_code
\* (0 when the exception carries no response).
Err(k, m, s) == [kind |-> k, msg |-> m, status |-> s]

NoError == Err("none", {}, 0)
Response == Err("response", {}, 200)

\* online.py:147
PoolExhausted == Err("RuntimeError", {"All NLP Cloud API tokens are cooling down due to rate limiting"}, 0)
\* online.py:107
TokenConfigMissing == Err("RuntimeError", {"NLP Cloud config missing: please set NLP_CLOUD_API_TOKEN"}, 0)
\* online.py:195
ModelNotConfigured == Err("RuntimeError", {"NLP Cloud model is not configured"}, 0)
\* online.py:197
TextEmpty == Err("ValueError", {"text must be non-empty"}, 0)
\* online.py:231
NoAvailableTokens == Err("RuntimeError", {"NLP Cloud sentiment API call failed with no available tokens"}, 0)

\* What client.sentiment(text) can raise (online.py:216): errors the provider
\* reports as rate limiting, and others.
ProviderErrors ==
    { Err("HTTPError", {"429", "Too Many Requests"}, 0),
      Err("HTTPError", {}, 429),
      Err("HTTPError", {"maximum number of requests per minute"}, 0),
      Err("HTTPError", {"Rate limit"}, 0),
      Err("HTTPError", {"429"}, 0),
      Err("HTTPError", {"Internal Server Error"}, 500),
      Err("Timeout", {"Read timed out"}, 0) }

AttemptResults == {Response} \cup ProviderErrors

\* Faulty variant of IsRateLimitError: "429" or "Too Many Requests" alone suffices.
IsRateLimitError_Loose(e) ==
    \/ "429" \in e.msg
    \/ "Too Many Requests" \in e.msg
    \/ "Rate limit" \in e.msg
    \/ "maximum number of requests per minute" \in e.msg
    \/ e.status = 429

\* _is_rate_limit_error: the substring tests on str(e) are case-sensitive
IsRateLimitError(e) ==
    \/ ("429" \in e.msg /\ "Too Many Requests" \in e.msg)
    \/ "Rate limit" \in e.msg
    \/ "maximum number of requests per minute" \in e.msg
    \/ e.status = 429

\* ------------------------------------------------------------------ token pool
PoolSize == Len(token_tokens)
Indices == 0 .. (PoolSize - 1)

\* The scan of _pick_token over the cooldowns cd of n tokens, from cursor start at
\* time t, from loop position i on: the index found, or NoIndex.
RECURSIVE ScanFrom(_, _, _, _, _)
ScanFrom(cd, start, n, t, i) ==
    IF i >= n THEN NoIndex
    ELSE LET k == (start + i) % n
         IN  IF cd[k] <= t THEN k ELSE ScanFrom(cd, start, n, t, i + 1)

\* Faulty variant of PickIndex: the cooldowns are not looked at.
PickIndex_NoSkip(cd, start, n, t) == start % n

\* Faulty variant of PickIndex: the scan starts one past the cursor.
PickIndex_FromNext(cd, start, n, t) == ScanFrom(cd, start + 1, n, t, 0)

\* _pick_token: the index it returns, or NoIndex when it raises

PickIndex(cd, start, n, t) == ScanFrom(cd, start, n, t, 0)

\* Faulty variant of NextCursor: the cursor does not wrap around.
NextCursor_NoWrap(k, n) == k + 1

\* Faulty variant of NextCursor: the cursor stays on the token picked.
NextCursor_Stay(k, n) == k % n

\* online.py:143

NextCursor(k, n) == (k + 1) % n

\* Faulty variant of MarkedCooldowns: neither the clamp at 0 nor the max.
MarkedCooldowns_Raw(cd, index, t, sec) ==
    [cd EXCEPT ![index] = t + sec]

\* Faulty variant of MarkedCooldowns: the mark is forgotten.
MarkedCooldowns_Noop(cd, index, t, sec) == cd

\* Faulty variant of MarkedCooldowns: every token of the pool is put into cooldown.
MarkedCooldowns_All(cd, index, t, sec) ==
    [j \in DOMAIN cd |-> Max(cd[j], t + Max(0, sec))]

\* _mark_token_rate_limited on a valid index: the cooldowns after it
MarkedCooldowns(cd, index, t, sec) ==
    [cd EXCEPT ![index] = Max(cd[index], t + Max(0, sec))]

\* Faulty variant of InitError: an empty token list is accepted.
InitError_Never == NoError

\* _init_token_pool_if_needed: the error it raises, or the pool after it
PoolReady == token_tokens # <<>>
InitError == IF PoolReady \/ cfg.api_tokens # <<>> THEN NoError ELSE TokenConfigMissing
InitedTokens == IF PoolReady THEN token_tokens ELSE cfg.api_tokens
InitedCooldowns ==
    IF PoolReady THEN token_cooldowns
    ELSE [i \in 0 .. (Len(cfg.api_tokens) - 1) |-> 0]
InitedIndex == IF PoolReady THEN token_index ELSE 0
InitedCooldownSec == IF PoolReady THEN token_cooldown_sec ELSE cfg.token_cooldown
InitedLastMark ==
    IF PoolReady THEN last_mark
    ELSE [i \in 0 .. (Len(cfg.api_tokens) - 1) |-> NoIndex]

\* ------------------------------------------------------------------ initial state
\* No request has been served yet.
NoRequest == [handler |-> "none", userid |-> FALSE, texts |-> <<>>]
\* config.py:408, 415, 434-435: nothing is set
DefaultEnv == [mode |-> "local", provider |-> "", sentiment_model |-> "", emotion_model |-> ""]
NoResponse == [status |-> 0, detail |-> NoError]
NoFrame == [sent |-> "none", emo |-> "none", calls |-> 0, user |-> "unset"]

ConfigChoices ==
    { [api_tokens |-> [i \in 1 .. n |-> i], token_cooldown |-> c] :
        n \in 0 .. MaxTokens, c \in (0 - 1) .. MaxCooldown }

ModuleLoaded ==
    /\ now = 0
    /\ token_tokens = <<>>
    /\ token_cooldowns = <<>>
    /\ token_index = 0
    /\ token_cooldown_sec = DefaultCooldownSec
    /\ pc = "idle"
    /\ it = 0
    /\ n_tokens = 0
    /\ idx = NoIndex
    /\ last_error = NoError
    /\ outcome = NoError
    /\ tried = <<>>
    /\ result = NoError
    /\ cooling_at_start = FALSE
    /\ logged_exhausted = FALSE
    /\ picked = [idx |-> NoIndex, tok |-> 0, err |-> NoError]
    /\ marked = [idx |-> NoIndex, overlap |-> FALSE]
    /\ last_mark = <<>>
    /\ op_parity = 0
    /\ req = NoRequest
    /\ rpc = "none"
    /\ results = 0
    /\ http = NoResponse
    /\ cur = NoFrame
    /\ touched = {}
    /\ caught = {}
    /\ logged = {}

\* No distribution is being filtered.
NoFilter ==
    /\ emotions_pairs = <<>>
    /\ min_score = 0
    /\ canon_pairs = <<>>

\* main.py:19-26: the metrics of a service that has served nothing
NoMetrics ==
    /\ inference_latencies_ms = <<>>
    /\ inference_count = 0
    /\ emotion_top1_scores = <<>>
    /\ emotion_top1_times = <<>>
    /\ perf_counter = 0
    /\ error_count = 0
    /\ top1_log = <<>>

\* No percentile is being queried.
NoPercentile ==
    /\ values = <<>>
    /\ quantile = 0
    /\ percentile = <<>>

\* ------------------------------------------------------------------ bounds
MaxRequests == 2

Requests == 1 .. MaxRequests
Users == {"u1", "u2"}

\* No request has been sent.
NoLoop ==
    /\ at = [r \in Requests |-> "absent"]
    /\ who = [r \in Requests |-> ""]
    /\ scan_start = [r \in Requests |-> 0]
    /\ held = [r \in Requests |-> NoIndex]
    /\ attempts = [r \in Requests |-> 0]
    /\ user_states = [u \in Users |-> <<>>]
    /\ seen = [r \in Requests |-> <<>>]
    /\ overlapped = FALSE

\* No sentiment has been derived.
NoBucket ==
    /\ raw_pairs = <<>>
    /\ sentiment = [label |-> "", scores |-> <<>>]

\* No pick has been made.
NoRun ==
    /\ run = <<>>
    /\ run_start = 0

NoSnapshot == [inference_count |-> 0, error_count |-> 0, updates |-> 0]
NoServing == [tries |-> 0, marked |-> {}, external |-> "none"]

\* No request has left anything behind.
NoServe ==
    /\ batch_results = <<>>
    /\ returned = <<>>
    /\ at_receipt = NoSnapshot
    /\ serving = NoServing

NoSide == NoMetrics /\ NoPercentile /\ NoLoop /\ NoBucket /\ NoRun /\ NoServe

Init ==
    /\ cfg \in ConfigChoices
    /\ env = DefaultEnv
    /\ ModuleLoaded
    /\ NoFilter
    /\ NoSide

\* ------------------------------------------------------------------ clock
Tick ==
    /\ now < MaxTime
    /\ now' = now + 1
    /\ UNCHANGED <<cfg, poolVars, callVars, picked, marked, last_mark, op_parity, mainVars>>

\* ------------------------------------------------------------------ pool operations
\* The record of a _pick_token call on an initialised pool with cooldowns cd and
\* cursor start
PickRecord(cd, start) ==
    LET k == PickIndex(cd, start, Len(InitedTokens), now)
    IN  [idx |-> k,
         tok |-> IF k = NoIndex THEN 0 ELSE InitedTokens[k + 1],
         err |-> IF k = NoIndex THEN PoolExhausted ELSE NoError]

\* The record of a _mark_token_rate_limited call
MarkRecord(index) ==
    [idx |-> index,
     overlap |-> index \in Indices /\ token_cooldowns[index] > now]

\* online.py:127-147 _pick_token(), outside a logical call
PickCall ==
    /\ pc = "idle"
    /\ op_parity' = 1 - op_parity
    /\ IF InitError # NoError
       THEN /\ picked' = [idx |-> NoIndex, tok |-> 0, err |-> InitError]
            /\ UNCHANGED <<poolVars, last_mark>>
       ELSE /\ picked' = PickRecord(InitedCooldowns, InitedIndex)
            /\ token_tokens' = InitedTokens
            /\ token_cooldowns' = InitedCooldowns
            /\ token_cooldown_sec' = InitedCooldownSec
            /\ last_mark' = InitedLastMark
            /\ token_index' = IF picked'.idx = NoIndex THEN InitedIndex
                              ELSE NextCursor(picked'.idx, Len(InitedTokens))
    /\ UNCHANGED <<now, cfg, callVars, marked>>

\* _pick_token() called on its own
DirectPick == PickCall /\ UNCHANGED mainVars

\* online.py:150-164 _mark_token_rate_limited(index), outside a logical call
MarkCall(index) ==
    /\ pc = "idle"
    /\ op_parity' = 1 - op_parity
    /\ marked' = MarkRecord(index)
    /\ IF index < 0 \/ index >= PoolSize
       THEN UNCHANGED <<token_cooldowns, last_mark>>
       ELSE /\ token_cooldowns' = MarkedCooldowns(token_cooldowns, index, now, token_cooldown_sec)
            /\ last_mark' = [last_mark EXCEPT ![index] = now]
    /\ UNCHANGED <<now, cfg, token_tokens, token_index, token_cooldown_sec, callVars, picked>>

\* _mark_token_rate_limited(index) called on its own
DirectMark(index) == MarkCall(index) /\ UNCHANGED mainVars

PoolNext ==
    \/ Tick
    \/ DirectPick
    \/ \E index \in (0 - 1) .. MaxTokens : DirectMark(index)

PoolSpec == Init /\ [][PoolNext]_vars

\* ------------------------------------------------------------------ the logical external call
Models == {"", "distilbert-base-uncased-emotion"}
Texts == {"", "some text"}

\* online.py:219-224: a failed attempt is retried exactly when its error is
\* detected as a rate-limit error
ShouldRetry(e) == IsRateLimitError(e)

\* Faulty variant of LoopBound: the loop runs twice over the pool.
LoopBound_Twice(n) == 2 * Max(1, n)

\* online.py:206
LoopBound(n) == Max(1, n)

\* online.py:226-231: what the call raises after the loop
RaisedAfterLoop(err) == IF err # NoError THEN err ELSE NoAvailableTokens

\* online.py:227-228: whether the "all tokens appear rate-limited" record is logged
LogsExhausted(err) == err # NoError /\ IsRateLimitError(err)

\* The call raises e before the loop (online.py:194-202).
RaiseEarly(e) ==
    /\ pc' = "done"
    /\ outcome' = e
    /\ last_error' = NoError
    /\ it' = 0
    /\ n_tokens' = 0
    /\ tried' = <<>>
    /\ cooling_at_start' = FALSE
    /\ logged_exhausted' = FALSE
    /\ UNCHANGED <<poolVars, idx, picked, marked, last_mark>>

\* The loop is left with last_error = err (online.py:226-231).
Finish(err) ==
    /\ pc' = "done"
    /\ last_error' = err
    /\ outcome' = RaisedAfterLoop(err)
    /\ logged_exhausted' = LogsExhausted(err)

\* online.py:207-214: the loop head with `iter` iterations started so far, cooldowns
\* cd and last_error err; tr are the indices attempted so far. Either the loop is
\* over, or a token is picked and the attempt with it starts, or the pick fails.
Iterate(cd, n, iter, err, tr) ==
    IF iter >= n
    THEN /\ Finish(err)
         /\ UNCHANGED <<token_index, picked, idx, it>>
         /\ tried' = tr
    ELSE /\ picked' = PickRecord(cd, InitedIndex)
         /\ it' = iter + 1
         /\ IF picked'.idx = NoIndex
            THEN /\ Finish(picked'.err)
                 /\ token_index' = InitedIndex
                 /\ tried' = tr
                 /\ UNCHANGED idx
            ELSE /\ pc' = "attempt"
                 /\ idx' = picked'.idx
                 /\ token_index' = NextCursor(picked'.idx, Len(InitedTokens))
                 /\ tried' = Append(tr, picked'.idx)
                 /\ last_error' = err
                 /\ outcome' = NoError
                 /\ logged_exhausted' = FALSE

\* _call_sentiment_api(model, text) up to its first external attempt
CallStart(model, text) ==
    /\ pc \in {"idle", "done"}
    /\ op_parity' = 1 - op_parity
    /\ result' = NoError
    /\ IF model = "" THEN RaiseEarly(ModelNotConfigured)
       ELSE IF text = "" THEN RaiseEarly(TextEmpty)
       ELSE IF InitError # NoError THEN RaiseEarly(InitError)
       ELSE /\ token_tokens' = InitedTokens
            /\ token_cooldowns' = InitedCooldowns
            /\ token_cooldown_sec' = InitedCooldownSec
            /\ last_mark' = InitedLastMark
            /\ n_tokens' = LoopBound(Len(InitedTokens))
            /\ cooling_at_start' = \A i \in DOMAIN InitedCooldowns : InitedCooldowns[i] > now
            /\ Iterate(InitedCooldowns, n_tokens', 0, NoError, <<>>)
            /\ UNCHANGED marked
    /\ UNCHANGED <<now, cfg, mainVars>>

\* client.sentiment(text) returns or raises r (online.py:215-224), and the call
\* goes on to its next external attempt or to its end
AttemptReturn(r) ==
    /\ pc = "attempt"
    /\ op_parity' = 1 - op_parity
    /\ result' = r
    /\ IF r = Response
       THEN /\ pc' = "done"
            /\ outcome' = r
            /\ UNCHANGED <<poolVars, it, idx, last_error, tried, logged_exhausted,
                           picked, marked, last_mark>>
       ELSE IF ShouldRetry(r)
       THEN /\ marked' = MarkRecord(idx)
            /\ last_mark' = [last_mark EXCEPT ![idx] = now]
            /\ token_cooldowns' = MarkedCooldowns(token_cooldowns, idx, now, token_cooldown_sec)
            /\ Iterate(token_cooldowns', n_tokens, it, r, tried)
            /\ UNCHANGED <<token_tokens, token_cooldown_sec>>
       ELSE /\ pc' = "done"
            /\ outcome' = r
            /\ last_error' = r
            /\ UNCHANGED <<poolVars, it, idx, tried, logged_exhausted,
                           picked, marked, last_mark>>
    /\ UNCHANGED <<now, cfg, n_tokens, cooling_at_start, mainVars>>

Next ==
    \/ Tick
    \/ \E model \in Models, text \in Texts : CallStart(model, text)
    \/ \E r \in AttemptResults : AttemptReturn(r)

Spec == Init /\ [][Next]_vars

\* An external attempt returns or raises: the HTTP client gives the control back.
FairSpec == Spec /\ WF_vars(\E r \in AttemptResults : AttemptReturn(r))

\* Every use of the pool: logical calls, and _pick_token called on its own before
\* the first of them.
UseNext ==
    \/ Next
    \/ DirectPick

UseSpec == Init /\ [][UseNext]_vars

\* Every operation on the pool in any order: logical calls, and between them
\* _pick_token and _mark_token_rate_limited called on their own.
AnyNext ==
    \/ Next
    \/ DirectPick
    \/ \E index \in (0 - 1) .. MaxTokens : DirectMark(index)

AnySpec == Init /\ [][AnyNext]_vars

\* ------------------------------------------------------------------ the 3-token scenario
\* Three configured tokens and the default cooldown of 60 seconds; token[1] is
\* marked rate-limited at t=0 and never again; picks at any time.
ScenarioInit ==
    /\ cfg = [api_tokens |-> <<1, 2, 3>>, token_cooldown |-> DefaultCooldownSec]
    /\ env = DefaultEnv
    /\ ModuleLoaded
    /\ NoFilter
    /\ NoSide

ScenarioTick ==
    /\ now < ScenarioEnd
    /\ now' = now + 1
    /\ UNCHANGED <<cfg, poolVars, callVars, picked, marked, last_mark, op_parity, mainVars>>

ScenarioMark ==
    /\ now = 0
    /\ PoolReady
    /\ DirectMark(1)

ScenarioNext ==
    \/ ScenarioTick
    \/ DirectPick
    \/ ScenarioMark

ScenarioSpec == ScenarioInit /\ [][ScenarioNext]_vars

\* ------------------------------------------------------------------ the request handlers
MaxTexts == 2

\* config.py:407-411 (the value is taken stripped and in lower case)
get_emo_backend(v) == IF v \in {"local", "online", "auto"} THEN v ELSE "local"

\* EMO_BACKEND values: the three modes and one that is none of them
BackendSettings == {"local", "online", "auto", "remote"}
\* get_online_provider (config.py:414-416)
Providers == {"nlpcloud", "other"}
\* NLP_CLOUD_SENTIMENT_MODEL and NLP_CLOUD_EMOTION_MODEL, "" when unset
ModelSettings ==
    { [sent |-> "", emo |-> ""],
      [sent |-> "distilbert-base-uncased-emotion", emo |-> ""],
      [sent |-> "distilbert-base-uncased-emotion", emo |-> "roberta-emotion"] }

\* get_nlpcloud_config (config.py:443-449): the emotion model falls back to the
\* sentiment model; "" stands for None
ConfiguredEmotionModel(m) == IF m.emo = "" THEN m.sent ELSE m.emo

\* str.strip() on the request texts
RawTexts == {"", "  ", " some text "}
Strip(t) ==
    IF t = " some text " THEN "some text"
    ELSE IF t = "other" THEN "other"
    ELSE ""

\* main.py:312-313: the texts of a batch, stripped, the empty ones dropped
RECURSIVE NonEmptyTexts(_)
NonEmptyTexts(ts) ==
    IF ts = <<>> THEN <<>>
    ELSE LET rest == NonEmptyTexts(Tail(ts))
         IN  IF Strip(Head(ts)) = "" THEN rest ELSE <<Strip(Head(ts))>> \o rest

RawBatches == UNION { [1 .. n -> RawTexts \ {""}] : n \in 0 .. MaxTexts }

\* What the collaborators outside app/online.py raise
LocalFailure == Err("RuntimeError", {"local model failed"}, 0)
DeriveFailure == Err("ValueError", {"analysis failed"}, 0)
StoreFailure == Err("OSError", {"user store failed"}, 0)
\* online.py:338, 371, 410
EmptyScores == Err("RuntimeError", {"Empty scores from NLP Cloud"}, 0)
\* online.py:398-400
EmotionConfigMissing ==
    Err("RuntimeError", {"NLP Cloud config missing: please set NLP_CLOUD_API_TOKEN and NLP_CLOUD_SENTIMENT_MODEL"}, 0)
\* main.py:183, 315
EmptyInput == Err("HTTPException", {"text must not be empty"}, 400)

\* The steps of a handler that may raise, besides the external attempts:
\* ensure_emotion/init_vad_mapper, ensure_sentiment, models.analyze_sentiment,
\* models.analyze_emotions, an empty score list in the provider's response,
\* canonicalisation/filter/VAD/stress (main.py:223-237), get_store().update_user,
\* _record_emotion_top1
PreloadFaults == {"ensure_emotion", "ensure_sentiment"}
TextFaults == {"local_sentiment", "local_emotions", "derive", "user_state", "metrics"}
ResponseFaults == {"empty_scores", "local_emotions", "derive", "user_state", "metrics"}

ExternalPositions == {"combined", "sentiment", "emotion"}

\* main.py:67, 99, 191, 210: the branch condition of the external-only path
OnlineBranch == get_emo_backend(env.mode) = "online" /\ env.provider = "nlpcloud"
\* Faulty variant of AutoBranch: the mode is not looked at.
AutoBranch_AnyMode == env.provider = "nlpcloud"

\* main.py:73, 105: the branch condition of the local-then-external path
AutoBranch == get_emo_backend(env.mode) = "auto" /\ env.provider = "nlpcloud"
\* main.py:212-214
SameModel == env.emotion_model = "" \/ env.emotion_model = env.sentiment_model

\* The model argument of the logical call made at an external position:
\* cfg.get("sentiment_model") or "" (online.py:329, 362), and
\* cfg.get("emotion_model") or cfg.get("sentiment_model") (online.py:396)
ExternalModel(pos) ==
    IF pos = "emotion" /\ env.emotion_model # "" THEN env.emotion_model
    ELSE env.sentiment_model

\* The handler's state as one record
Frame ==
    [rpc |-> rpc, results |-> results, http |-> http, cur |-> cur,
     touched |-> touched, caught |-> caught, logged |-> logged]

Become(s) ==
    /\ rpc' = s.rpc
    /\ results' = s.results
    /\ http' = s.http
    /\ cur' = s.cur
    /\ touched' = s.touched
    /\ caught' = s.caught
    /\ logged' = s.logged

\* Faulty variant of Fail500: the exception is reported as a bad request.
Fail500_BadRequest(s, e) ==
    [s EXCEPT !.rpc = "ended", !.http = [status |-> 400, detail |-> e]]

\* main.py:302-307, 337-345, 431-436: the exception e becomes a 500 with detail str(e)
Fail500(s, e) == [s EXCEPT !.rpc = "ended", !.http = [status |-> 500, detail |-> e]]

\* _call_sentiment_api is called for the current text
EnterExternal(s, pos) ==
    [s EXCEPT !.rpc = pos, !.touched = @ \cup {"external"}, !.cur.calls = @ + 1]

\* Faulty variant of UserState: a failure of the store is raised.
UserState_Raise(s, f) ==
    IF ~req.userid THEN s
    ELSE IF "user_state" \in f
    THEN Fail500([s EXCEPT !.touched = @ \cup {"store"}, !.cur.user = "failed"], StoreFailure)
    ELSE [s EXCEPT !.touched = @ \cup {"store"}, !.cur.user = "state"]

\* main.py:239-252, 381-394: the user-state update of a request with a user id
UserState(s, f) ==
    IF ~req.userid THEN s
    ELSE IF "user_state" \in f
    THEN [s EXCEPT !.touched = @ \cup {"store"}, !.caught = @ \cup {"user_state"},
                   !.cur.user = "failed"]
    ELSE [s EXCEPT !.touched = @ \cup {"store"}, !.cur.user = "state"]

\* main.py:286-290, 420-424: _record_emotion_top1 inside try/except: pass
RecordTop1(s, f) ==
    IF "metrics" \in f THEN [s EXCEPT !.caught = @ \cup {"metrics"}] ELSE s

\* main.py:301, 430, 438: the text is done; the handler returns after the last one
TextDone(s) ==
    LET last == s.results + 1 >= Len(req.texts)
    IN  [s EXCEPT !.results = @ + 1,
                  !.rpc = IF last THEN "ended" ELSE "text",
                  !.http = IF last THEN [status |-> 200, detail |-> NoError] ELSE @]

\* main.py:223-301, 367-430: from the two raw results to the result of the text
Finalize(s, f) ==
    IF "derive" \in f THEN Fail500(s, DeriveFailure)
    ELSE LET u == UserState(s, f)
         IN  IF u.rpc = "ended" THEN u ELSE TextDone(RecordTop1(u, f))

\* analyze_emotions_nlpcloud up to its logical call (online.py:392-403)
EmotionsOnline(s) ==
    IF ExternalModel("emotion") = ""
    THEN Fail500(s, EmotionConfigMissing)
    ELSE EnterExternal(s, "emotion")

\* _analyze_emotions_with_backend (main.py:86-115), then the rest of the text
Emotions(s, f) ==
    IF OnlineBranch THEN EmotionsOnline(s)
    ELSE LET l == [s EXCEPT !.touched = @ \cup {"local"}]
         IN  IF "local_emotions" \notin f
             THEN Finalize([l EXCEPT !.cur.emo = "local"], f)
             ELSE IF AutoBranch
             THEN EmotionsOnline([l EXCEPT !.caught = @ \cup {"local_emotions"},
                                           !.logged = @ \cup {"local_emotions"}])
             ELSE Fail500(l, LocalFailure)

\* _analyze_sentiment_with_backend (main.py:56-83), then the rest of the text
Sentiment(s, f) ==
    IF OnlineBranch THEN EnterExternal(s, "sentiment")
    ELSE LET l == [s EXCEPT !.touched = @ \cup {"local"}]
         IN  IF "local_sentiment" \notin f
             THEN Emotions([l EXCEPT !.cur.sent = "local"], f)
             ELSE IF AutoBranch
             THEN EnterExternal([l EXCEPT !.caught = @ \cup {"local_sentiment"},
                                          !.logged = @ \cup {"local_sentiment"}],
                                "sentiment")
             ELSE Fail500(l, LocalFailure)

\* main.py:207-222, 352-366: the combined call when the external-only path is
\* configured with one model, the two backend selectors otherwise
TextBegin(s, f) ==
    LET t == [s EXCEPT !.cur = NoFrame]
    IN  IF OnlineBranch /\ SameModel
        THEN EnterExternal(t, "combined")
        ELSE Sentiment(t, f)

\* main.py:190-205 and 320-345: ensure_emotion and init_vad_mapper, and in the
\* batch handler ensure_sentiment, unless the external-only path is configured
Preload(s, f) ==
    IF OnlineBranch THEN s
    ELSE LET l == [s EXCEPT !.touched = @ \cup {"local"}]
         IN  IF "ensure_emotion" \in f THEN Fail500(l, LocalFailure)
             ELSE IF req.handler = "batch" /\ "ensure_sentiment" \in f
             THEN Fail500(l, LocalFailure)
             ELSE l

\* Faulty variant of HasText: the texts are not looked at.
HasText_Any(ts) == TRUE

\* main.py:182, 314
HasText(ts) == ts # <<>>

\* The handler takes a request: the validation of main.py:181-183 and 312-315
Receive(handler, userid, raw) ==
    /\ rpc \in {"none", "ended"}
    /\ op_parity' = 1 - op_parity
    /\ req' = [handler |-> handler, userid |-> userid, texts |-> NonEmptyTexts(raw)]
    /\ results' = 0
    /\ cur' = NoFrame
    /\ touched' = {}
    /\ caught' = {}
    /\ logged' = {}
    /\ IF HasText(req'.texts)
       THEN rpc' = "preload" /\ http' = NoResponse
       ELSE rpc' = "ended" /\ http' = [status |-> 400, detail |-> EmptyInput]
    /\ UNCHANGED <<now, cfg, poolVars, callVars, picked, marked, last_mark, env, filterVars,
                   sideVars>>

\* POST /analyze
Analyze ==
    \E userid \in BOOLEAN, text \in RawTexts : Receive("analyze", userid, <<text>>)

\* POST /analyze/batch
AnalyzeBatch ==
    \E userid \in BOOLEAN, texts \in RawBatches : Receive("batch", userid, texts)

\* The handler prepares the local models (main.py:190-205, 320-345)
PreloadStep ==
    /\ rpc = "preload"
    /\ op_parity' = 1 - op_parity
    /\ \E f \in SUBSET PreloadFaults :
          LET s == Preload(Frame, f)
          IN  Become(IF s.rpc = "ended" THEN s ELSE [s EXCEPT !.rpc = "text"])
    /\ UNCHANGED <<now, cfg, poolVars, callVars, picked, marked, last_mark, env, req,
                   filterVars, sideVars>>

\* The handler takes the next text up to its first logical external call, or to
\* its end when it needs none
TextStart ==
    /\ rpc = "text"
    /\ op_parity' = 1 - op_parity
    /\ \E f \in SUBSET TextFaults : Become(TextBegin(Frame, f))
    /\ UNCHANGED <<now, cfg, poolVars, callVars, picked, marked, last_mark, env, req,
                   filterVars, sideVars>>

\* _call_sentiment_api is entered for the current text
ExternalStart ==
    /\ rpc \in ExternalPositions
    /\ pc = "idle"
    /\ CallStart(ExternalModel(rpc), req.texts[results + 1])

\* online.py:207-224: a rate-limited attempt that was followed by another attempt
\* was caught for good; _mark_token_rate_limited, called with the index of an
\* attempt of this call, wrote its record (online.py:159)
RateLimitCaught(s) ==
    IF Len(tried) > 1
    THEN [s EXCEPT !.caught = @ \cup {"rate_limit"},
                   !.logged = IF \E i \in 1 .. Len(tried) : marked.idx = tried[i]
                              THEN @ \cup {"rate_limit"} ELSE @]
    ELSE s

\* What the handler does with the response of a logical call
AfterResponse(s, f) ==
    IF "empty_scores" \in f THEN Fail500(s, EmptyScores)
    ELSE IF s.rpc = "combined"
    THEN Finalize([s EXCEPT !.cur.sent = "combined", !.cur.emo = "combined"], f)
    ELSE IF s.rpc = "sentiment"
    THEN Emotions([s EXCEPT !.cur.sent = "sentiment"], f)
    ELSE Finalize([s EXCEPT !.cur.emo = "emotion"], f)

\* The frame of _call_sentiment_api is gone: its locals hold nothing any more
CallReturned ==
    /\ pc' = "idle"
    /\ it' = 0
    /\ n_tokens' = 0
    /\ idx' = NoIndex
    /\ last_error' = NoError
    /\ outcome' = NoError
    /\ tried' = <<>>
    /\ result' = NoError
    /\ cooling_at_start' = FALSE
    /\ logged_exhausted' = FALSE

\* _call_sentiment_api has returned or raised: the handler goes on to the next
\* logical call, to the end of the text, or to its except clause
ExternalEnd ==
    /\ rpc \in ExternalPositions
    /\ pc = "done"
    /\ op_parity' = 1 - op_parity
    /\ \E f \in SUBSET ResponseFaults :
          Become(IF outcome = Response
                 THEN AfterResponse(RateLimitCaught(Frame), f)
                 ELSE Fail500(RateLimitCaught(Frame), outcome))
    /\ CallReturned
    /\ UNCHANGED <<now, cfg, poolVars, picked, marked, last_mark, env, req,
                   filterVars, sideVars>>

\* The provider's answers to an attempt made for a request
RequestAttemptResults ==
    { Response,
      Err("HTTPError", {}, 429),
      Err("HTTPError", {"Internal Server Error"}, 500) }

\* The settings of a deployment
Environments ==
    { [mode |-> mode, provider |-> provider, sentiment_model |-> m.sent,
       emotion_model |-> ConfiguredEmotionModel(m)] :
        mode \in BackendSettings, provider \in Providers, m \in ModelSettings }

\* Requests are served with the largest cooldown and the pools below the largest
RequestInit ==
    /\ cfg \in { c \in ConfigChoices :
                    c.token_cooldown = MaxCooldown /\ Len(c.api_tokens) < MaxTokens }
    /\ env \in Environments
    /\ ModuleLoaded
    /\ NoFilter
    /\ NoSide

RequestNext ==
    \/ Analyze
    \/ AnalyzeBatch
    \/ PreloadStep
    \/ TextStart
    \/ ExternalStart
    \/ \E r \in RequestAttemptResults : AttemptReturn(r)
    \/ ExternalEnd

RequestSpec == RequestInit /\ [][RequestNext]_vars

\* ------------------------------------------------------------------ the minimum-score filter
\* Scores are counted in tenths.
MaxScore == 3
MaxLabels == 2
\* A full score, 1.0
Unit == 10

Labels == {"joy", "anger"}
Distributions ==
    UNION { [1 .. n -> [label : Labels, score : 0 .. MaxScore]] : n \in 0 .. MaxLabels }
\* EMO_MIN_EMOTION_SCORE: unset or not a number (0), negative, or a threshold up to
\* one above every score
Thresholds == (0 - 1) .. (MaxScore + 1)

RECURSIVE SumScores(_)
SumScores(pairs) ==
    IF pairs = <<>> THEN 0 ELSE Head(pairs).score + SumScores(Tail(pairs))

\* normalize_distribution: the scores scaled to sum to 1.0 (here: to Unit, rounded
\* down); an empty distribution becomes the single entry neutral = 1.0
normalize_distribution(pairs) ==
    IF pairs = <<>> THEN <<[label |-> "neutral", score |-> Unit]>>
    ELSE IF SumScores(pairs) = 0 THEN pairs
    ELSE [i \in 1 .. Len(pairs) |->
            [label |-> pairs[i].label,
             score |-> (pairs[i].score * Unit) \div SumScores(pairs)]]

\* main.py:231, 374: the list comprehension
AtOrAbove(pairs, m) == SelectSeq(pairs, LAMBDA p : p.score >= m)

\* Faulty variant of MinScoreFilter: the filtered list replaces the distribution
\* also when it is empty.
MinScoreFilter_Always(pairs, m) ==
    IF m > 0 THEN normalize_distribution(AtOrAbove(pairs, m)) ELSE pairs

\* main.py:229-235, 372-377: canon_pairs after the filter with threshold m
MinScoreFilter(pairs, m) ==
    IF m > 0 /\ AtOrAbove(pairs, m) # <<>>
    THEN normalize_distribution(AtOrAbove(pairs, m))
    ELSE pairs

\* main.py:229-235: the filter is applied, once, to canon_pairs
ApplyFilter ==
    /\ op_parity = 0
    /\ op_parity' = 1
    /\ canon_pairs' = MinScoreFilter(canon_pairs, min_score)
    /\ UNCHANGED <<now, cfg, poolVars, callVars, picked, marked, last_mark,
                   env, req, rpc, results, http, cur, touched, caught, logged,
                   emotions_pairs, min_score, sideVars>>

\* main.py:223-229: canon_pairs is the distribution of the backend (alias mapping
\* off) when the threshold is read
FilterInit ==
    /\ cfg = [api_tokens |-> <<>>, token_cooldown |-> DefaultCooldownSec]
    /\ env = DefaultEnv
    /\ ModuleLoaded
    /\ emotions_pairs \in Distributions
    /\ min_score \in Thresholds
    /\ canon_pairs = emotions_pairs
    /\ NoSide

FilterNext == ApplyFilter

FilterSpec == FilterInit /\ [][FilterNext]_vars

\* ------------------------------------------------------------------ the metrics buffers
\* main.py:34, 51 cap each buffer at 2000 entries and keep the newest 1000; the model's
\* buffers hold BufferCap entries and keep half of that.
BufferCap == 4
\* Insertions per buffer
MaxInserts == 8

\* main.py:35, 52-53: the number of entries that survive a truncation
BufferKeep == BufferCap \div 2

\* What a latency or a top-1 score can be
Readings == {1, 2}

\* Faulty variant of Capped: the oldest entries are kept.
Capped_KeepOldest(buf) ==
    IF Len(buf) > BufferCap THEN SubSeq(buf, 1, BufferKeep) ELSE buf

\* main.py:34-35, 51-53: `if len(buf) > 2000: del buf[: len(buf) - 1000]`
Capped(buf) ==
    IF Len(buf) > BufferCap
    THEN SubSeq(buf, Len(buf) - BufferKeep + 1, Len(buf))
    ELSE buf

\* Faulty variant of CappedAlong: the buffer is never truncated.
CappedAlong_Never(buf, scores) == buf

\* main.py:51-53: the times buffer is cut to its newest half when the scores
\* buffer, after its append, is longer than the capacity
CappedAlong(buf, scores) ==
    IF Len(scores) > BufferCap
    THEN SubSeq(buf, Len(buf) - BufferKeep + 1, Len(buf))
    ELSE buf

\* main.py:29-35 _record_latency_ms(ms)
RecordLatency(ms) ==
    /\ inference_count < MaxInserts
    /\ inference_count' = inference_count + 1
    /\ inference_latencies_ms' = Capped(Append(inference_latencies_ms, ms))
    /\ op_parity' = 1 - op_parity
    /\ UNCHANGED <<now, cfg, poolVars, callVars, picked, marked, last_mark,
                   env, req, rpc, results, http, cur, touched, caught, logged,
                   filterVars, emotion_top1_scores, emotion_top1_times, perf_counter,
                   error_count, top1_log, percentileVars, loopVars, bucketVars, runVars,
                   serveVars>>

\* main.py:48-53 _record_emotion_top1(score)
RecordEmotionTop1(score) ==
    /\ perf_counter < MaxInserts
    /\ perf_counter' = perf_counter + 1
    /\ emotion_top1_scores' = Capped(Append(emotion_top1_scores, score))
    /\ emotion_top1_times' =
          CappedAlong(Append(emotion_top1_times, perf_counter'),
                      Append(emotion_top1_scores, score))
    /\ top1_log' = Append(top1_log, score)
    /\ op_parity' = 1 - op_parity
    /\ UNCHANGED <<now, cfg, poolVars, callVars, picked, marked, last_mark,
                   env, req, rpc, results, http, cur, touched, caught, logged,
                   filterVars, inference_latencies_ms, inference_count, error_count,
                   percentileVars, loopVars, bucketVars, runVars, serveVars>>

MetricsInit ==
    /\ cfg = [api_tokens |-> <<>>, token_cooldown |-> DefaultCooldownSec]
    /\ env = DefaultEnv
    /\ ModuleLoaded
    /\ NoFilter
    /\ NoSide

\* No request is served and no metric is recorded.
ServiceIdle ==
    /\ cfg = [api_tokens |-> <<>>, token_cooldown |-> DefaultCooldownSec]
    /\ env = DefaultEnv
    /\ ModuleLoaded
    /\ NoFilter
    /\ NoMetrics
    /\ NoLoop
    /\ NoRun
    /\ NoServe

MetricsNext ==
    \/ \E ms \in Readings : RecordLatency(ms)
    \/ \E score \in Readings : RecordEmotionTop1(score)

MetricsSpec == MetricsInit /\ [][MetricsNext]_vars

\* ------------------------------------------------------------------ the percentile query
MaxSamples == 4
\* q is counted in hundredths
Hundred == 100

\* main.py:506-508: the quantiles of /metrics, and the two ends of [0, 1]
Quantiles == {0, 50, 95, 99, Hundred}
SampleLists == UNION { [1 .. n -> 0 .. MaxScore] : n \in 0 .. MaxSamples }

Min(a, b) == IF a <= b THEN a ELSE b

RECURSIVE Inserted(_, _)
Inserted(s, x) ==
    IF s = <<>> THEN <<x>>
    ELSE IF x < Head(s) THEN <<x>> \o s
    ELSE <<Head(s)>> \o Inserted(Tail(s), x)

\* sorted(values): ascending
RECURSIVE sorted(_)
sorted(vs) == IF vs = <<>> THEN <<>> ELSE Inserted(sorted(Tail(vs)), Head(vs))

\* main.py:38-45 _percentile(values, q); int() of a non-negative number rounds down
percentile_of(vs, q) ==
    IF vs = <<>> THEN <<>>
    ELSE LET s == sorted(vs)
             n == Len(s)
             i == (q * (n - 1)) \div Hundred
         IN  <<s[Max(0, Min(i, n - 1)) + 1]>>

\* main.py:506: one _percentile call
PercentileQuery ==
    /\ op_parity = 0
    /\ op_parity' = 1
    /\ percentile' = percentile_of(values, quantile)
    /\ UNCHANGED <<now, cfg, poolVars, callVars, picked, marked, last_mark,
                   env, req, rpc, results, http, cur, touched, caught, logged,
                   filterVars, metricsVars, values, quantile, loopVars, bucketVars,
                   runVars, serveVars>>

PercentileInit ==
    /\ ServiceIdle
    /\ NoBucket
    /\ values \in SampleLists
    /\ quantile \in Quantiles
    /\ percentile = <<>>

PercentileNext == PercentileQuery

PercentileSpec == PercentileInit /\ [][PercentileNext]_vars

\* ------------------------------------------------------------------ sentiment bucketing
MaxPairs == 3

\* Labels a provider can return: a sentiment word in capitals, emotion words, a word
\* that only contains "pos", and a label outside the vocabulary
RawLabels == {"POSITIVE", "joy", "anger", "neutral", "composed", "Other"}
\* Scores in tenths, a negative one included
RawScores == {0 - 1, 0, 1, 2}
PairLists ==
    UNION { [1 .. n -> [label : RawLabels, score : RawScores]] : n \in 0 .. MaxPairs }

\* online.py:243: str(lbl).lower().strip(), on RawLabels
lower_strip(lbl) ==
    IF lbl = "POSITIVE" THEN "positive" ELSE IF lbl = "Other" THEN "other" ELSE lbl

\* `sub in l` (online.py:247-251) for the lowered labels of RawLabels
Contains(l, sub) ==
    \/ l = "positive" /\ sub \in {"pos", "positive"}
    \/ l = "composed" /\ sub = "pos"
    \/ l = "neutral" /\ sub \in {"neu", "neutral"}

\* online.py:256-286
positive_emotions ==
    {"love", "joy", "amusement", "optimism", "gratitude", "admiration", "excitement",
     "desire", "pride", "relief", "happiness", "caring", "approval"}
negative_emotions ==
    {"anger", "fear", "sadness", "disgust", "contempt", "disappointment", "remorse",
     "guilt", "embarrassment", "grief", "nervousness", "confusion", "disapproval"}
neutral_emotions == {"surprise", "curiosity", "neutral"}

\* online.py:243-297: the key of a label
BucketKey(lbl) ==
    LET l == lower_strip(lbl)
    IN  IF Contains(l, "pos") \/ Contains(l, "positive") THEN "positive"
        ELSE IF Contains(l, "neg") \/ Contains(l, "negative") THEN "negative"
        ELSE IF Contains(l, "neu") \/ Contains(l, "neutral") THEN "neutral"
        ELSE IF l \in positive_emotions THEN "positive"
        ELSE IF l \in negative_emotions THEN "negative"
        ELSE IF l \in neutral_emotions THEN "neutral"
        ELSE lbl

\* online.py:303-304
Clamped(score) == IF score < 0 THEN 0 ELSE score

\* Faulty variant of Upsert: the score replaces what the key had.
Upsert_Replace(tmp, key, score) ==
    IF \E i \in 1 .. Len(tmp) : tmp[i].key = key
    THEN [i \in 1 .. Len(tmp) |->
            IF tmp[i].key = key THEN [key |-> key, score |-> score] ELSE tmp[i]]
    ELSE Append(tmp, [key |-> key, score |-> score])

\* online.py:305: tmp[key] = tmp.get(key, 0.0) + score; a dict keeps its keys in the
\* order of their first insertion
Upsert(tmp, key, score) ==
    IF \E i \in 1 .. Len(tmp) : tmp[i].key = key
    THEN [i \in 1 .. Len(tmp) |->
            IF tmp[i].key = key THEN [key |-> key, score |-> tmp[i].score + score]
            ELSE tmp[i]]
    ELSE Append(tmp, [key |-> key, score |-> score])

\* online.py:241-305: the loop over the pairs
RECURSIVE Accumulated(_, _)
Accumulated(pairs, tmp) ==
    IF pairs = <<>> THEN tmp
    ELSE Accumulated(Tail(pairs),
                     Upsert(tmp, BucketKey(Head(pairs).label), Clamped(Head(pairs).score)))

RECURSIVE SumValues(_)
SumValues(tmp) == IF tmp = <<>> THEN 0 ELSE Head(tmp).score + SumValues(Tail(tmp))

\* Faulty variant of FirstMax: the last of the largest entries.
FirstMax_Last(scores) ==
    CHOOSE i \in 1 .. Len(scores) :
        /\ \A j \in 1 .. Len(scores) : scores[j].num <= scores[i].num
        /\ \A j \in (i + 1) .. Len(scores) : scores[j].num < scores[i].num

\* online.py:312: max() returns the first of the largest entries
FirstMax(scores) ==
    CHOOSE i \in 1 .. Len(scores) :
        /\ \A j \in 1 .. Len(scores) : scores[j].num <= scores[i].num
        /\ \A j \in 1 .. (i - 1) : scores[j].num < scores[i].num

\* online.py:234-313 _derive_sentiment_from_pairs(pairs); a score v / total is kept
\* as the fraction num / den, and 1.0 is Unit tenths
derive_sentiment_from_pairs(pairs) ==
    LET built == Accumulated(pairs, <<>>)
        tmp == IF built = <<>> THEN <<[key |-> "neutral", score |-> Unit]>> ELSE built
        total == IF SumValues(tmp) = 0 THEN Unit ELSE SumValues(tmp)
        scores == [i \in 1 .. Len(tmp) |->
                     [key |-> tmp[i].key, num |-> tmp[i].score, den |-> total]]
    IN  [label |-> scores[FirstMax(scores)].key, scores |-> scores]

\* online.py:340, 373: one call of _derive_sentiment_from_pairs
DeriveSentiment ==
    /\ op_parity = 0
    /\ op_parity' = 1
    /\ sentiment' = derive_sentiment_from_pairs(raw_pairs)
    /\ UNCHANGED <<now, cfg, poolVars, callVars, picked, marked, last_mark,
                   env, req, rpc, results, http, cur, touched, caught, logged,
                   filterVars, metricsVars, percentileVars, loopVars, raw_pairs,
                   runVars, serveVars>>

BucketInit ==
    /\ ServiceIdle
    /\ NoPercentile
    /\ raw_pairs \in PairLists
    /\ sentiment = [label |-> "", scores |-> <<>>]

BucketNext == DeriveSentiment

BucketSpec == BucketInit /\ [][BucketNext]_vars

\* ------------------------------------------------------------------ concurrent requests
\* The handlers of main.py are `async def` functions whose bodies contain no await:
\* local model compute, the NLP Cloud client and the user store are called as plain
\* functions.  The event loop therefore runs one handler at a time, from its first
\* statement to its return; a request that arrives meanwhile waits.  Inside a
\* handler, the reads and writes of shared state are separate steps.
outsideLoop ==
    <<now, cfg, callVars, picked, marked, op_parity, req, rpc, results, http, cur,
      touched, caught, logged, filterVars, metricsVars, percentileVars, bucketVars,
      runVars, serveVars>>

\* The requests whose handler has started and not returned
Executing == { r \in Requests : at[r] \notin {"absent", "arrived", "done", "failed"} }

\* Faulty variant of LoopFree: a handler starts whatever else is running.
LoopFree_Always == TRUE

\* main.py:180: the event loop can start a handler when none is running
LoopFree == Executing = {}

\* A client sends POST /analyze with a user id
Arrive(r, u) ==
    /\ at[r] = "absent"
    /\ at' = [at EXCEPT ![r] = "arrived"]
    /\ who' = [who EXCEPT ![r] = u]
    /\ overlapped' = (overlapped \/ Executing # {})
    /\ UNCHANGED <<outsideLoop, env, poolVars, last_mark, scan_start, held, attempts,
                   user_states, seen>>

\* main.py:180-222: the handler starts and runs up to its backend call: the external
\* call (online.py:202-209) or local model compute (main.py:62, 92)
Start(r) ==
    /\ at[r] = "arrived"
    /\ LoopFree
    /\ at' = [at EXCEPT ![r] = IF OnlineBranch THEN "picking" ELSE "blocked"]
    /\ overlapped' = (overlapped \/ \E o \in Requests \ {r} : at[o] = "arrived")
    /\ UNCHANGED <<outsideLoop, env, poolVars, last_mark, who, scan_start, held,
                   attempts,                    user_states, seen>>

\* online.py:132-139: _pick_token initialises the pool if needed and reads the cursor
PickRead(r) ==
    /\ at[r] = "picking"
    /\ token_tokens' = InitedTokens
    /\ token_cooldowns' = InitedCooldowns
    /\ token_cooldown_sec' = InitedCooldownSec
    /\ token_index' = InitedIndex
    /\ last_mark' = InitedLastMark
    /\ scan_start' = [scan_start EXCEPT ![r] = InitedIndex]
    /\ at' = [at EXCEPT ![r] = "picked"]
    /\ UNCHANGED <<outsideLoop, env, who, held, attempts, user_states, seen, overlapped>>

\* online.py:140-147, 209-216: the scan, the cursor update and the start of the
\* attempt; or no token is available and the request fails
PickWrite(r) ==
    /\ at[r] = "picked"
    /\ LET k == PickIndex(token_cooldowns, scan_start[r], PoolSize, now)
       IN  IF k = NoIndex
           THEN /\ at' = [at EXCEPT ![r] = "failed"]
                /\ UNCHANGED <<token_index, held, attempts>>
           ELSE /\ token_index' = NextCursor(k, PoolSize)
                /\ held' = [held EXCEPT ![r] = k]
                /\ attempts' = [attempts EXCEPT ![r] = @ + 1]
                /\ at' = [at EXCEPT ![r] = "blocked"]
    /\ UNCHANGED <<outsideLoop, env, token_tokens, token_cooldowns, token_cooldown_sec,
                   last_mark, who, scan_start, user_states, seen, overlapped>>

\* main.py:62, 92 and online.py:216: the blocking call returns a result
Unblock(r) ==
    /\ at[r] = "blocked"
    /\ at' = [at EXCEPT ![r] = "reading"]
    /\ held' = [held EXCEPT ![r] = NoIndex]
    /\ UNCHANGED <<outsideLoop, env, poolVars, last_mark, who, scan_start, attempts,
                   user_states, seen, overlapped>>

\* online.py:217-222, 207: the attempt is rate-limited: its token is marked and the
\* loop picks again, or ends after n_tokens iterations
RateLimited(r) ==
    /\ at[r] = "blocked"
    /\ held[r] # NoIndex
    /\ token_cooldowns' =
           MarkedCooldowns(token_cooldowns, held[r], now, token_cooldown_sec)
    /\ last_mark' = [last_mark EXCEPT ![held[r]] = now]
    /\ held' = [held EXCEPT ![r] = NoIndex]
    /\ at' = [at EXCEPT ![r] = IF attempts[r] < LoopBound(PoolSize) THEN "picking"
                                ELSE "failed"]
    /\ UNCHANGED <<outsideLoop, env, token_tokens, token_index, token_cooldown_sec,
                   who, scan_start, attempts, user_states, seen, overlapped>>

\* main.py:242: update_user reads the state of the user
StoreRead(r) ==
    /\ at[r] = "reading"
    /\ seen' = [seen EXCEPT ![r] = user_states[who[r]]]
    /\ at' = [at EXCEPT ![r] = "writing"]
    /\ UNCHANGED <<outsideLoop, env, poolVars, last_mark, who, scan_start, held,
                   attempts,                    user_states, overlapped>>

\* main.py:242-301: update_user writes the state with the event applied, and the
\* handler returns
StoreWrite(r) ==
    /\ at[r] = "writing"
    /\ user_states' = [user_states EXCEPT ![who[r]] = Append(seen[r], r)]
    /\ at' = [at EXCEPT ![r] = "done"]
    /\ UNCHANGED <<outsideLoop, env, poolVars, last_mark, who, scan_start, held,
                   attempts,                    seen, overlapped>>

LoopInit ==
    /\ cfg = [api_tokens |-> [i \in 1 .. MaxTokens - 1 |-> i],
              token_cooldown |-> MaxCooldown]
    /\ env \in { e \in Environments :
                    /\ e.mode \in {"local", "online"}
                    /\ e.provider = "nlpcloud"
                    /\ e.sentiment_model # "" }
    /\ ModuleLoaded
    /\ NoFilter
    /\ NoSide

LoopNext ==
    \/ \E r \in Requests, u \in Users : Arrive(r, u)
    \/ \E r \in Requests : Start(r)
    \/ \E r \in Requests : PickRead(r)
    \/ \E r \in Requests : PickWrite(r)
    \/ \E r \in Requests : Unblock(r)
    \/ \E r \in Requests : RateLimited(r)
    \/ \E r \in Requests : StoreRead(r)
    \/ \E r \in Requests : StoreWrite(r)

LoopSpec == LoopInit /\ [][LoopNext]_vars

\* ------------------------------------------------------------------ runs of picks
\* The pool operations with a record of the consecutive picks made while no token
\* was cooling: a mark, a failed pick or a pick with a cooling token ends the run,
\* and a run that has gone once around the pool starts again.
beyondRun ==
    <<env, req, rpc, results, http, cur, touched, caught, logged, filterVars,
      metricsVars, percentileVars, loopVars, bucketVars, serveVars>>

\* Some token of the pool, as _pick_token finds it, is cooling
SomeCooling == \E i \in DOMAIN InitedCooldowns : InitedCooldowns[i] > now

RunPick ==
    /\ PickCall
    /\ IF InitError # NoError \/ SomeCooling \/ picked'.idx = NoIndex
       THEN run' = <<>> /\ run_start' = 0
       ELSE IF run = <<>> \/ Len(run) = Len(InitedTokens)
       THEN run' = <<picked'.idx>> /\ run_start' = InitedIndex
       ELSE run' = Append(run, picked'.idx) /\ UNCHANGED run_start
    /\ UNCHANGED beyondRun

RunMark(index) ==
    /\ MarkCall(index)
    /\ run' = <<>>
    /\ run_start' = 0
    /\ UNCHANGED beyondRun

RunNext ==
    \/ Tick
    \/ RunPick
    \/ \E index \in (0 - 1) .. MaxTokens : RunMark(index)

RunSpec == Init /\ [][RunNext]_vars

\* ------------------------------------------------------------------ what a request leaves behind
\* The two handlers, one text at a time, with what they leave in the metrics, the
\* user store and the token pool. The backend is abstract: a text's analysis
\* succeeds or raises, before or after the store was updated, and an external
\* attempt is answered or rate-limited.
MaxServed == 3

ServeTexts == {"  ", " some text ", "other"}
\* The batches: up to MaxTexts raw texts, no text twice
ServeBatches ==
    { b \in UNION { [1 .. n -> ServeTexts] : n \in 0 .. MaxTexts } :
        \A i \in DOMAIN b, j \in DOMAIN b : b[i] = b[j] => i = j }
ServeFaults == {"none", "before", "after", "store"}

\* The user of a request that names one
ServedUser == "u1"

\* The abstract backend: every text takes the same time and gets the same top-1
\* emotion score, the smallest reading
Elapsed == CHOOSE r \in Readings : \A o \in Readings : r <= o
Top1Of(text) == CHOOSE r \in Readings : \A o \in Readings : r <= o

\* The provider's rate-limit response
TooManyRequests == Err("HTTPError", {"429", "Too Many Requests"}, 429)

\* main.py:73, 105, 200: the environments in which a text can go to the provider
ExternalUsed == OnlineBranch \/ AutoBranch

Snapshot ==
    [inference_count |-> inference_count,
     error_count |-> error_count,
     updates |-> Len(user_states[ServedUser])]

beyondServe ==
    <<now, cfg, callVars, picked, marked, env, cur, touched, caught, logged,
      filterVars, percentileVars, bucketVars, runVars,
      at, who, scan_start, held, attempts, seen, overlapped>>

poolKept == UNCHANGED <<poolVars, last_mark>>
top1Kept == UNCHANGED <<emotion_top1_scores, emotion_top1_times, perf_counter, top1_log>>

\* Faulty variant of LatencyRecorded: the sample is kept, the count is not.
LatencyRecorded_Uncounted(ms) ==
    /\ inference_latencies_ms' = Capped(Append(inference_latencies_ms, ms))
    /\ UNCHANGED inference_count

\* main.py:29-35 as the handlers call it
LatencyRecorded(ms) ==
    /\ inference_count' = inference_count + 1
    /\ inference_latencies_ms' = Capped(Append(inference_latencies_ms, ms))

\* main.py:48-53 as the handlers call it
Top1Recorded(score) ==
    /\ perf_counter' = perf_counter + 1
    /\ emotion_top1_scores' = Capped(Append(emotion_top1_scores, score))
    /\ emotion_top1_times' =
          CappedAlong(Append(emotion_top1_times, perf_counter'),
                      Append(emotion_top1_scores, score))
    /\ top1_log' = Append(top1_log, score)

\* main.py:302-307, 431-436: the except branch of a text
TextFailed(ms, e) ==
    /\ LatencyRecorded(ms)
    /\ error_count' = error_count + 1
    /\ http' = [status |-> 500, detail |-> e]
    /\ rpc' = "ended"
    /\ returned' = <<>>
    /\ serving' = NoServing
    /\ UNCHANGED <<results, batch_results>>

\* main.py:181-183, 312-315: the request is validated
ServeReceive(handler, userid, raw) ==
    /\ rpc \in {"none", "ended"}
    /\ inference_count + Len(NonEmptyTexts(raw)) <= MaxServed
    /\ op_parity' = 1 - op_parity
    /\ req' = [handler |-> handler, userid |-> userid, texts |-> NonEmptyTexts(raw),
               raw |-> raw]
    /\ results' = 0
    /\ batch_results' = <<>>
    /\ returned' = <<>>
    /\ serving' = NoServing
    /\ at_receipt' = Snapshot
    /\ IF HasText(req'.texts)
       THEN /\ rpc' = IF handler = "batch" THEN "preload" ELSE "text"
            /\ http' = NoResponse
       ELSE /\ rpc' = "ended"
            /\ http' = [status |-> 400, detail |-> EmptyInput]
    /\ poolKept
    /\ UNCHANGED <<metricsVars, user_states, beyondServe>>

\* main.py:321-345: the preload of the batch handler, outside the try of the texts
ServePreload(fails) ==
    /\ rpc = "preload"
    /\ (OnlineBranch => ~fails)
    /\ op_parity' = 1 - op_parity
    /\ IF fails
       THEN /\ rpc' = "ended"
            /\ http' = [status |-> 500, detail |-> LocalFailure]
       ELSE /\ rpc' = "text"
            /\ UNCHANGED http
    /\ poolKept
    /\ UNCHANGED <<req, results, batch_results, returned, serving, at_receipt,
                   metricsVars, user_states, beyondServe>>

\* One attempt of _call_sentiment_api (online.py:206-224) for the current text
ServeAttempt(limited) ==
    /\ rpc = "text"
    /\ ExternalUsed
    /\ serving.external = "none"
    /\ InitError = NoError
    /\ serving.tries < LoopBound(Len(InitedTokens))
    /\ op_parity' = 1 - op_parity
    /\ token_tokens' = InitedTokens
    /\ token_cooldown_sec' = InitedCooldownSec
    /\ LET pick == PickRecord(InitedCooldowns, InitedIndex)
       IN  IF pick.idx = NoIndex
           THEN /\ token_cooldowns' = InitedCooldowns
                /\ token_index' = InitedIndex
                /\ last_mark' = InitedLastMark
                /\ TextFailed(Elapsed, PoolExhausted)
           ELSE /\ token_index' = NextCursor(pick.idx, Len(InitedTokens))
                /\ IF limited
                   THEN /\ token_cooldowns' =
                             MarkedCooldowns(InitedCooldowns, pick.idx, now, InitedCooldownSec)
                        /\ last_mark' = [InitedLastMark EXCEPT ![pick.idx] = now]
                        /\ IF serving.tries + 1 = LoopBound(Len(InitedTokens))
                           THEN TextFailed(Elapsed, TooManyRequests)
                           ELSE /\ serving' = [serving EXCEPT !.tries = @ + 1,
                                                              !.marked = @ \cup {pick.idx}]
                                /\ UNCHANGED <<rpc, http, returned, results, batch_results,
                                               inference_count, inference_latencies_ms,
                                               error_count>>
                   ELSE /\ token_cooldowns' = InitedCooldowns
                        /\ last_mark' = InitedLastMark
                        /\ serving' = [serving EXCEPT !.external = "ok"]
                        /\ UNCHANGED <<rpc, http, returned, results, batch_results,
                                       inference_count, inference_latencies_ms,
                                       error_count>>
    /\ top1Kept
    /\ UNCHANGED <<req, at_receipt, user_states, beyondServe>>

\* Faulty variant of Stored: the update is lost.
Stored_Lost(text) == user_states

\* The store after update_user for the text (main.py:243-256, 384-397): one more
\* event of the user, with its time
Stored(text) == [user_states EXCEPT ![ServedUser] = Append(@, now)]

\* main.py:187-307, 349-436: the rest of the try block of the current text
ServeText(fault) ==
    /\ rpc = "text"
    /\ (OnlineBranch => serving.external = "ok")
    /\ (fault = "store" => req.userid)
    /\ op_parity' = 1 - op_parity
    /\ LET text == req.texts[results + 1]
           stored == req.userid /\ fault \notin {"before", "store"}
       IN  /\ user_states' = IF stored THEN Stored(text) ELSE user_states
           /\ IF fault \in {"before", "after"}
              THEN /\ TextFailed(Elapsed, DeriveFailure)
                   /\ top1Kept
              ELSE /\ LatencyRecorded(Elapsed)
                   /\ Top1Recorded(Top1Of(text))
                   /\ results' = results + 1
                   /\ batch_results' =
                        Append(batch_results,
                               [text |-> text, stored |-> stored, marked |-> serving.marked])
                   /\ serving' = NoServing
                   /\ UNCHANGED error_count
                   /\ IF results' = Len(req.texts)
                      THEN /\ rpc' = "ended"
                           /\ http' = [status |-> 200, detail |-> NoError]
                           /\ returned' = [i \in 1 .. Len(batch_results') |->
                                              batch_results'[i].text]
                      ELSE UNCHANGED <<rpc, http, returned>>
    /\ poolKept
    /\ UNCHANGED <<req, at_receipt, beyondServe>>

\* A pool of two tokens, the provider configured, the local models in use (auto)
\* or not (online)
ServeInit ==
    /\ cfg = [api_tokens |-> <<1, 2>>, token_cooldown |-> MaxCooldown]
    /\ env \in { e \in Environments :
                    /\ e.mode \in {"auto", "online"}
                    /\ e.provider = "nlpcloud"
                    /\ e.sentiment_model # ""
                    /\ e.emotion_model = e.sentiment_model }
    /\ ModuleLoaded
    /\ NoFilter
    /\ NoSide

ServeNext ==
    \/ \E userid \in BOOLEAN, t \in ServeTexts : ServeReceive("analyze", userid, <<t>>)
    \/ \E userid \in BOOLEAN, raw \in ServeBatches : ServeReceive("batch", userid, raw)
    \/ \E fails \in BOOLEAN : ServePreload(fails)
    \/ \E limited \in BOOLEAN : ServeAttempt(limited)
    \/ \E fault \in ServeFaults : ServeText(fault)

ServeSpec == ServeInit /\ [][ServeNext]_vars

\* ------------------------------------------------------------------ claims on the pool
\* Index i was marked rate-limited and its cooldown has not elapsed at time t:
\* stated on the history of marks, not on the pool's own array.
MarkedCooling(i, t) ==
    /\ i \in DOMAIN last_mark
    /\ last_mark[i] # NoIndex
    /\ t < last_mark[i] + Max(0, token_cooldown_sec)

\* C1: after markRateLimited(i) at time t no pick() before t + cooldown returns
\* token i, whatever picks and marks are interleaved; and a pick() made while every
\* token of the pool is cooling fails with the pool-exhausted error.
C1_PickNeverReturnsCooling ==
    [][DirectPick =>
        /\ picked'.idx # NoIndex => ~MarkedCooling(picked'.idx, now)
        /\ (PoolReady /\ \A i \in Indices : MarkedCooling(i, now))
              => (picked'.idx = NoIndex /\ picked'.err = PoolExhausted)]_vars

\* C1 witness: a pool of at least two tokens, all marked and cooling, on which the
\* most recent pick failed with the pool-exhausted error.
C1_Witness ==
    /\ PoolSize >= 2
    /\ \A i \in Indices : MarkedCooling(i, now)
    /\ picked.err = PoolExhausted

\* C2: pick() returns (token, index) with index the first position in the cyclic
\* order cursor, cursor+1, ..., cursor+N-1 (mod N) whose cooldown_until is not
\* greater than now; every position before it in that order is cooling.
C2_PickIsFirstAvailable ==
    [][(DirectPick /\ picked'.idx # NoIndex) =>
        IF ~PoolReady THEN picked'.idx = 0 /\ picked'.tok = cfg.api_tokens[1]
        ELSE
        \E k \in 0 .. (PoolSize - 1) :
            /\ picked'.idx = (token_index + k) % PoolSize
            /\ picked'.tok = token_tokens[picked'.idx + 1]
            /\ token_cooldowns[picked'.idx] <= now
            /\ \A j \in 0 .. (k - 1) : token_cooldowns[(token_index + j) % PoolSize] > now]_vars

\* C2 witness: a pick that skipped two cooling tokens and wrapped around: the cursor
\* now stands on a token that is still cooling, as is the one after it.
C2_Witness ==
    /\ PoolSize = 3
    /\ picked.idx = 0
    /\ token_index = 1
    /\ token_cooldowns[1] > now
    /\ token_cooldowns[2] > now
    /\ marked.idx = 2

\* C3: cooldown_until[i] never decreases, and markRateLimited(i) sets it to
\* max(previous value, now + cooldown duration), the duration being the configured
\* one, counted as 0 when negative.
C3_CooldownNeverShrinks ==
    [][/\ \A i \in Indices : token_cooldowns'[i] >= token_cooldowns[i]
       /\ \A i \in Indices :
            DirectMark(i) =>
                token_cooldowns'[i] = Max(token_cooldowns[i], now + Max(0, token_cooldown_sec))]_vars

\* C3 witness: a mark of a token that was still cooling (overlapping penalties).
C3_Witness ==
    /\ marked.overlap
    /\ marked.idx \in Indices
    /\ last_mark[marked.idx] = now
    /\ token_cooldowns[marked.idx] > now

\* C4: in the 3-token pool with cooldown 60 s and token[1] marked at t=0, pick()
\* calls at t=0 (and at any time before the cooldown ends) return only tokens 0 and
\* 2, alternating; from t=61 on, a pick whose scan starts at token[1] returns it.
C4_ScenarioCycle ==
    [][(DirectPick /\ PoolReady /\ last_mark[1] = 0) =>
        /\ now < DefaultCooldownSec =>
              /\ picked'.idx \in {0, 2}
              /\ picked.idx \in {0, 2} => picked'.idx = 2 - picked.idx
        /\ (now >= DefaultCooldownSec + 1 /\ token_index = 1) => picked'.idx = 1]_vars

\* C4 witness: at t >= 61 token[1], marked at t=0 and not since, is picked again.
C4_Witness ==
    /\ now >= DefaultCooldownSec + 1
    /\ PoolReady
    /\ last_mark[1] = 0
    /\ token_cooldowns[1] = DefaultCooldownSec
    /\ picked.idx = 1

\* ------------------------------------------------------------------ claims on the logical call
\* C5: within one logical external call no token index is used for two external
\* attempts, for any cooldown duration and any duration of an attempt.
C5_EachTokenTriedOnce ==
    \A i, j \in 1 .. Len(tried) : i # j => tried[i] # tried[j]

\* C6: every logical external call terminates, with a response or an error, after
\* at most N external attempts, N the pool size: a failed attempt is never retried
\* indefinitely. (Each external attempt is taken to return or raise.)
C6_CallTerminates ==
    /\ [](Len(tried) <= PoolSize /\ it <= Max(1, PoolSize))
    /\ [][(pc = "attempt" /\ now' = now) => (pc' = "done" \/ Len(tried') = Len(tried) + 1)]_vars
    /\ (pc = "attempt" ~> (pc = "done" /\ outcome # NoError))

\* C6 witness: a call on a 3-token pool that ended with an error after three
\* external attempts.
C6_Witness ==
    /\ pc = "done"
    /\ PoolSize = 3
    /\ Len(tried) = 3
    /\ outcome \in ProviderErrors

\* The provider's rate-limit responses, as the provider sends them: HTTP 429 (as a
\* status code or in the message) and its rate-limit messages.
RateLimitSignals ==
    { Err("HTTPError", {"429", "Too Many Requests"}, 0),
      Err("HTTPError", {}, 429),
      Err("HTTPError", {"maximum number of requests per minute"}, 0),
      Err("HTTPError", {"Rate limit"}, 0) }

\* C7: when an external attempt with token i fails with a rate-limit error, token i
\* is marked (its cooldown_until raised to now + cooldown, so it is cooling whenever
\* the cooldown is positive) before the next attempt, and the next attempt of the
\* same logical call uses a different token, one that is not cooling.
C7_RateLimitedTokenMarkedThenNext ==
    [][\A r \in RateLimitSignals :
        AttemptReturn(r) =>
            /\ token_cooldowns'[idx] >= now + Max(0, token_cooldown_sec)
            /\ token_cooldown_sec > 0 => token_cooldowns'[idx] > now
            /\ marked'.idx = idx
            /\ last_mark'[idx] = now
            /\ pc' = "attempt" =>
                  /\ idx' # idx
                  /\ token_cooldowns'[idx'] <= now
                  /\ tried' = Append(tried, idx')]_vars

\* C7 witness: the second attempt of a call is in flight with another token, the
\* token of the first, rate-limited, attempt being marked and cooling.
C7_Witness ==
    /\ pc = "attempt"
    /\ result \in RateLimitSignals
    /\ Len(tried) = 2
    /\ marked.idx = tried[1]
    /\ token_cooldowns[tried[1]] > now
    /\ idx = tried[2]
    /\ idx # tried[1]

\* C8: when an external attempt fails with an error that is not a rate-limit error,
\* the logical call ends at once with that same error: no further token is picked,
\* no further attempt is made, no token is marked cooling.
C8_OtherErrorsPropagate ==
    [][\A r \in ProviderErrors \ RateLimitSignals :
        AttemptReturn(r) =>
            /\ pc' = "done"
            /\ outcome' = r
            /\ UNCHANGED <<poolVars, picked, marked, last_mark, tried, it>>]_vars

\* C8 witness: a call on a 3-token pool ended by a timeout of its first attempt,
\* the two other tokens being available and untried.
C8_Witness ==
    /\ pc = "done"
    /\ PoolSize = 3
    /\ outcome = Err("Timeout", {"Read timed out"}, 0)
    /\ Len(tried) = 1
    /\ \A i \in Indices : i # tried[1] => token_cooldowns[i] <= now

\* The call entered its loop and ended without a response.
EndedWithoutSuccess ==
    /\ pc = "done"
    /\ n_tokens > 0
    /\ outcome # Response

\* Rate limiting ended the call: its last attempt was rate-limited, or its last
\* pick found every remaining token cooling.
RateLimitTerminal ==
    \/ result \in RateLimitSignals
    \/ it > Len(tried)

\* C9: when a logical external call ends with no token having succeeded, it raises
\* the last error encountered, and whenever rate limiting was the terminal cause
\* that error is recognised as rate-limit-exhausted (the record of online.py:228).
C9_ExhaustionAnnotated ==
    EndedWithoutSuccess =>
        /\ outcome = last_error
        /\ RateLimitTerminal => logged_exhausted

\* The classes of the generic failures: a missing model or token configuration,
\* a provider error.
GenericKinds ==
    {ModelNotConfigured.kind, TokenConfigMissing.kind} \cup {e.kind : e \in ProviderErrors}

\* C10: when all tokens are cooling at the start of a logical external call, the
\* call issues no external request and fails with a rate-limit-exhausted outcome
\* that a caller can tell apart from a generic backend failure.
C10_AllCoolingDistinctOutcome ==
    (pc = "done" /\ cooling_at_start) =>
        /\ tried = <<>>
        /\ outcome # Response
        /\ \/ IsRateLimitError(outcome)
           \/ logged_exhausted
           \/ outcome.kind \notin GenericKinds

\* A step that runs _init_token_pool_if_needed: a pick, or a logical call that
\* passed its argument checks.
UsesPool ==
    \/ DirectPick
    \/ \E model \in Models \ {""}, text \in Texts \ {""} : CallStart(model, text)

\* C11: the pool is not initialised at module load; with an empty configured token
\* list the first use of the pool (a pick or a logical external call) raises the
\* configuration error and leaves the pool uninitialised, as does every later use;
\* with a non-empty list the first use initialises the pool from the configuration.
C11_LazyInitConfigError ==
    /\ ~PoolReady
    /\ [](cfg.api_tokens = <<>> => ~PoolReady)
    /\ [][UsesPool =>
            IF ~PoolReady /\ cfg.api_tokens = <<>>
            THEN /\ UNCHANGED poolVars
                 /\ DirectPick => picked'.err = TokenConfigMissing
                 /\ ~DirectPick => (pc' = "done" /\ outcome' = TokenConfigMissing /\ tried' = <<>>)
            ELSE /\ PoolReady'
                 /\ ~PoolReady => token_tokens' = cfg.api_tokens]_vars

\* C11 witness: with no token configured, a pick and then a logical call both
\* failed with the configuration error, and the pool is still uninitialised.
C11_Witness ==
    /\ cfg.api_tokens = <<>>
    /\ picked.err = TokenConfigMissing
    /\ pc = "done"
    /\ outcome = TokenConfigMissing
    /\ ~PoolReady

\* ------------------------------------------------------------------ claims on the request handlers
\* C12: in backend mode online every analyze request gets sentiment and emotions
\* from the external provider and never uses the local classifier, whatever the
\* provider name; and when a logical external call fails the request fails with
\* that call's error.
C12_OnlineAlwaysExternal ==
    /\ [](get_emo_backend(env.mode) = "online" =>
            /\ "local" \notin touched
            /\ cur.sent \in {"none", "combined", "sentiment"}
            /\ cur.emo \in {"none", "combined", "emotion"})
    /\ [][(get_emo_backend(env.mode) = "online" /\ ExternalEnd /\ outcome # Response) =>
            (rpc' = "ended" /\ http' = [status |-> 500, detail |-> outcome])]_vars

\* The local failures that the local-then-external path catches
LocalCaught == {"local_sentiment", "local_emotions"}

\* C13: in backend mode auto a failure of the local backend (model preparation,
\* sentiment or emotion inference) is caught and logged and the request goes on to
\* the external provider; the local failure is never the error of the request.
C13_AutoFallsBack ==
    get_emo_backend(env.mode) = "auto" =>
        /\ http.detail # LocalFailure
        /\ caught \cap LocalCaught \subseteq logged
        /\ caught \cap LocalCaught # {} => "external" \in touched

\* The settings read as backend mode local: local itself and every value that is
\* neither online nor auto
ReadAsLocal == env.mode \notin {"online", "auto"}

\* C14: in backend mode local, and with an unrecognised mode value, a request never
\* picks a token and never issues an external call, also when the local classifier
\* fails: no local failure is caught, and a failing local inference ends the
\* request with the local error.
C14_LocalNeverExternal ==
    /\ [](ReadAsLocal =>
            /\ "external" \notin touched
            /\ rpc \notin ExternalPositions
            /\ pc = "idle"
            /\ ~PoolReady
            /\ picked.idx = NoIndex /\ picked.err = NoError
            /\ caught \cap LocalCaught = {})
    /\ [][(ReadAsLocal /\ rpc = "text") =>
            \A f \in SUBSET TextFaults :
                (f \cap LocalCaught # {} /\ Become(TextBegin(Frame, f))) =>
                    (rpc' = "ended" /\ http' = [status |-> 500, detail |-> LocalFailure])]_vars

\* C14 witness: with an unrecognised mode value and the nlpcloud provider set, a
\* request ended with the local error after the local classifier failed, the pool
\* never having been initialised.
C14_Witness ==
    /\ env.mode = "remote"
    /\ env.provider = "nlpcloud"
    /\ env.sentiment_model # ""
    /\ rpc = "ended"
    /\ http = [status |-> 500, detail |-> LocalFailure]
    /\ cur.sent = "local"
    /\ touched = {"local"}
    /\ ~PoolReady

\* Sentiment and emotion are configured with one and the same external model.
IdenticalModel == env.sentiment_model # "" /\ env.emotion_model = env.sentiment_model

\* C15: when sentiment and emotion are configured with the identical external
\* model, a text analysed through the external provider (online mode, or auto mode
\* after a local failure) causes exactly one logical external call, and both the
\* sentiment and the emotion distribution come from that call's response.
C15_OneCallWhenSameModel ==
    (IdenticalModel /\ cur.calls > 0) =>
        /\ cur.calls = 1
        /\ (cur.sent # "none" /\ cur.emo # "none") =>
              (cur.sent = "combined" /\ cur.emo = "combined")

\* C16: the minimum-score filter never yields an empty distribution: for a
\* non-empty distribution and any threshold, the distribution used afterwards is
\* non-empty, and when no label scores at or above the threshold it is exactly the
\* pre-filter distribution (same labels, same scores, same order).
C16_FilterNeverEmpties ==
    emotions_pairs # <<>> =>
        /\ canon_pairs # <<>>
        /\ (\A i \in 1 .. Len(emotions_pairs) : emotions_pairs[i].score < min_score)
              => canon_pairs = emotions_pairs

\* C16 witness: a positive threshold above every score of a two-label distribution
\* with different scores, which passed through unchanged.
C16_Witness ==
    /\ op_parity = 1
    /\ Len(emotions_pairs) = 2
    /\ emotions_pairs[1].score > emotions_pairs[2].score
    /\ emotions_pairs[2].score > 0
    /\ min_score > emotions_pairs[1].score
    /\ canon_pairs = emotions_pairs

\* C17: a failure of the user-state update during a request with a user id never
\* fails the request: the text's result is still produced, with the user field
\* absent, and the request goes on to its next text or returns its results.
C17_StoreFailureTolerated ==
    cur.user = "failed" =>
        /\ req.userid
        /\ "store" \in touched
        /\ results >= 1
        /\ http.status # 500
        /\ \/ rpc = "ended" /\ http.status = 200 /\ results = Len(req.texts)
           \/ rpc = "text" /\ results < Len(req.texts)

\* C17 witness: a batch of two texts with a user id returned its two results, the
\* store having failed on the last text.
C17_Witness ==
    /\ req.handler = "batch"
    /\ req.userid
    /\ Len(req.texts) = 2
    /\ cur.user = "failed"
    /\ rpc = "ended"
    /\ http.status = 200
    /\ results = 2

\* C18: every error that is caught and not re-raised on the analyze paths (a local
\* failure in auto mode, a failed user-state update, a failed metrics recording, a
\* rate-limited attempt) has a log record written for it.
C18_CaughtErrorsLogged ==
    caught \subseteq logged

\* The raw inputs without any non-empty text
BlankBatches == { ts \in RawBatches : \A i \in 1 .. Len(ts) : Strip(ts[i]) = "" }
BlankTexts == { t \in RawTexts : Strip(t) = "" }

\* C19: an analyze request whose text is empty or whitespace-only, and a batch
\* request without a non-empty text (an empty texts[] included), is rejected with
\* 400 before any backend is touched: no local classifier call, no token pick, no
\* external call, no user-state update.
C19_EmptyInputRejected ==
    /\ [][(/\ rpc \in {"none", "ended"}
            /\ req'.texts = <<>>
            /\ \E userid \in BOOLEAN :
                  \/ \E t \in BlankTexts : Receive("analyze", userid, <<t>>)
                  \/ \E ts \in BlankBatches : Receive("batch", userid, ts))
            => (/\ rpc' = "ended"
                /\ http' = [status |-> 400, detail |-> EmptyInput]
                /\ touched' = {}
                /\ results' = 0
                /\ UNCHANGED <<poolVars, callVars, picked, marked, last_mark>>)]_vars
    /\ [](http.status = 400 => (rpc = "ended" /\ touched = {} /\ req.texts = <<>>))

\* C19 witness: a batch request with a user id and no non-empty text was rejected
\* with 400, by a service whose token pool earlier requests had initialised.
C19_Witness ==
    /\ req.handler = "batch"
    /\ req.userid
    /\ req.texts = <<>>
    /\ rpc = "ended"
    /\ http.status = 400
    /\ touched = {}
    /\ PoolReady

\* C20: every analyze or batch request ends in exactly one of three outcomes: 400
\* for a validation failure, 500 carrying the error's message for a terminal
\* backend, configuration or rate-limit failure, or a successful result; a failure
\* that ends the request after validation is never a 400 or a success.
C20_ThreeOutcomes ==
    /\ [](/\ rpc = "ended" <=> http.status # 0
          /\ http.status \in {0, 200, 400, 500}
          /\ http.status = 400 <=> (rpc = "ended" /\ req.texts = <<>>)
          /\ http.status = 400 => http.detail = EmptyInput
          /\ http.status = 200 => (http.detail = NoError /\ results = Len(req.texts))
          /\ http.status = 500 =>
                (http.detail \notin {NoError, Response, EmptyInput} /\ results < Len(req.texts)))
    /\ [][(pc = "done" /\ outcome # Response /\ ExternalEnd) =>
            (rpc' = "ended" /\ http'.status = 500 /\ http'.detail = outcome)]_vars
    /\ [][(rpc \in {"preload", "text"} \cup ExternalPositions /\ rpc' # rpc) =>
            \/ rpc' = "ended" /\ http'.status \in {200, 500}
            \/ rpc' # "ended" /\ http'.status = 0]_vars

\* C20 witness: a batch of two texts in online mode ended with 500 carrying the
\* pool's all-tokens-cooling error on its second text, after a first text that
\* succeeded.
C20_Witness ==
    /\ req.handler = "batch"
    /\ Len(req.texts) = 2
    /\ results = 1
    /\ rpc = "ended"
    /\ http = [status |-> 500, detail |-> PoolExhausted]
    /\ OnlineBranch

\* ------------------------------------------------------------------ claims on the metrics
\* The buffer `after` is what an insertion into `before` must leave: `before` with the
\* inserted entry at its end and, when that is longer than the capacity, only the
\* newest half-capacity entries of it.
InsertedInto(before, after) ==
    /\ after # <<>>
    /\ LET appended == Append(before, after[Len(after)])
           n == Len(appended)
       IN  IF n > BufferCap
           THEN /\ Len(after) = BufferCap \div 2
                /\ \A i \in 1 .. Len(after) : after[i] = appended[n - Len(after) + i]
           ELSE after = appended

\* C21: each metrics buffer holds at most its capacity after every insertion; an
\* insertion that makes a buffer longer than the capacity leaves the newest half of
\* the capacity, in insertion order (the times buffer is then the run of the latest
\* clock readings), and the two top-1 buffers stay aligned.
C21_BuffersBounded ==
    /\ [](/\ Len(inference_latencies_ms) <= BufferCap
          /\ Len(emotion_top1_scores) <= BufferCap
          /\ Len(emotion_top1_times) = Len(emotion_top1_scores)
          /\ \A i \in 1 .. Len(emotion_top1_times) :
                emotion_top1_times[i] = perf_counter - Len(emotion_top1_times) + i)
    /\ [][/\ (inference_count' # inference_count)
               => InsertedInto(inference_latencies_ms, inference_latencies_ms')
          /\ (perf_counter' # perf_counter)
               => (/\ InsertedInto(emotion_top1_scores, emotion_top1_scores')
                   /\ InsertedInto(emotion_top1_times, emotion_top1_times'))]_vars

\* Both buffers have overflowed and been truncated.
C21_Witness ==
    /\ inference_count = BufferCap + 1
    /\ Len(inference_latencies_ms) = BufferCap \div 2
    /\ perf_counter > BufferCap
    /\ Len(emotion_top1_scores) < perf_counter

\* round(q * (n - 1)) for q in hundredths: the nearest integer, a tie going to the
\* even one
RoundedIndex(q, n) ==
    LET num == q * (n - 1)
        low == num \div Hundred
        rest == num % Hundred
    IN  IF 2 * rest > Hundred THEN low + 1
        ELSE IF 2 * rest < Hundred THEN low
        ELSE IF low % 2 = 0 THEN low ELSE low + 1

\* C22: the percentile of a non-empty sample list is the element of the ascending
\* sorted samples at index round(q * (n - 1)), clamped to 0 .. n - 1; it is one of
\* the samples; the percentile of an empty list is no value.
C22_NearestRank ==
    op_parity = 1 =>
        IF values = <<>> THEN percentile = <<>>
        ELSE LET n == Len(values)
                 i == Max(0, Min(RoundedIndex(quantile, n), n - 1))
             IN  /\ percentile = <<sorted(values)[i + 1]>>
                 /\ \E k \in 1 .. n : percentile = <<values[k]>>

\* ------------------------------------------------------------------ claims on concurrency
\* C23: while a request is blocked in local model compute or in an external call, the
\* handler of a waiting request for another user can start.
C23_OtherUsersInParallel ==
    \A r \in Requests, o \in Requests :
        (at[r] = "blocked" /\ at[o] = "arrived" /\ who[o] # who[r])
            => ENABLED Start(o)

\* The requests that are between the read and the write of their user-state update
Updating(u) == { r \in Requests : at[r] = "writing" /\ who[r] = u }
\* The requests whose event has been applied to the state of user u
Applied(u) == { r \in Requests : at[r] = "done" /\ who[r] = u }

\* C24: the user-state updates of requests with the same user id never interleave:
\* at most one is between its read and its write, what it has read is still the
\* stored state, and the stored state holds the event of every finished request of
\* that user exactly once, as some sequential order of the updates leaves it.
C24_UpdatesSerialized ==
    \A u \in Users :
        /\ Cardinality(Updating(u)) <= 1
        /\ \A r \in Updating(u) : seen[r] = user_states[u]
        /\ Len(user_states[u]) = Cardinality(Applied(u))
        /\ { user_states[u][i] : i \in 1 .. Len(user_states[u]) } = Applied(u)

\* Two requests of one user were pending together and both updates are applied.
C24_Witness ==
    /\ overlapped
    /\ \E u \in Users : Cardinality(Applied(u)) >= 2

\* C25: the pool is accessed under mutual exclusion (at most one request is inside
\* _pick_token), and the exclusion is not held during an external attempt: while
\* an attempt is in flight, the handler of a waiting request can start and pick.
C25_PoolExclusion ==
    /\ Cardinality({ r \in Requests : at[r] \in {"picking", "picked"} }) <= 1
    /\ \A r \in Requests, o \in Requests :
          (at[r] = "blocked" /\ held[r] # NoIndex /\ at[o] = "arrived")
              => ENABLED Start(o)

\* ------------------------------------------------------------------ claims on bucketing
\* The positions of the input pairs whose label goes to key k
Contributing(k) ==
    { i \in 1 .. Len(raw_pairs) : BucketKey(raw_pairs[i].label) = k }
\* The positions of the returned scores that carry key k
Carrying(k) ==
    { j \in 1 .. Len(sentiment.scores) : sentiment.scores[j].key = k }

RECURSIVE ClampedSum(_)
ClampedSum(positions) ==
    IF positions = {} THEN 0
    ELSE LET i == CHOOSE x \in positions : TRUE
         IN  Clamped(raw_pairs[i].score) + ClampedSum(positions \ {i})

\* C26: bucketing drops no label: every input label has exactly one key in the
\* returned scores, which is positive, negative or neutral or else the label itself,
\* that key's value counts the label's score, and for a non-empty input every
\* returned key has a contributing label.
C26_NoLabelDropped ==
    (op_parity = 1 /\ raw_pairs # <<>>) =>
        /\ \A i \in 1 .. Len(raw_pairs) :
              LET lbl == raw_pairs[i].label
                  k == BucketKey(lbl)
              IN  /\ k \in {"positive", "negative", "neutral"} \/ k = lbl
                  /\ Cardinality(Carrying(k)) = 1
                  /\ \A j \in Carrying(k) :
                        sentiment.scores[j].num = ClampedSum(Contributing(k))
        /\ \A j \in 1 .. Len(sentiment.scores) :
              Contributing(sentiment.scores[j].key) # {}

\* Two labels went to one bucket, an unknown label kept its own key.
C26_Witness ==
    /\ op_parity = 1
    /\ \E j \in 1 .. Len(sentiment.scores) :
          /\ sentiment.scores[j].key = "positive"
          /\ sentiment.scores[j].num = 3
          /\ Cardinality(Contributing("positive")) = 2
    /\ Carrying("Other") # {}

RECURSIVE SumNum(_)
SumNum(scores) == IF scores = <<>> THEN 0 ELSE Head(scores).num + SumNum(Tail(scores))

\* C27: the returned bucket scores are non-negative and sum to 1, also when every
\* input score is zero or negative.
C27_ScoresSumToOne ==
    op_parity = 1 =>
        /\ \A j \in 1 .. Len(sentiment.scores) :
              sentiment.scores[j].num >= 0 /\ sentiment.scores[j].den > 0
        /\ \E j \in 1 .. Len(sentiment.scores) :
              SumNum(sentiment.scores) = sentiment.scores[j].den

\* C28: no request ends with the error raised for a provider response without
\* usable pairs: such a response is replaced by neutral = 1.0 and the request goes on.
C28_EmptyReplacedByNeutral == http.detail # EmptyScores

\* The position in the input of the first label that goes to key k
FirstContribution(k) ==
    CHOOSE i \in Contributing(k) : \A x \in Contributing(k) : i <= x

\* C29: the returned label is a bucket of the largest score, and among several
\* buckets of that score it is the one whose first label comes earliest in the input.
C29_LabelIsFirstMax ==
    (op_parity = 1 /\ raw_pairs # <<>>) =>
        \A j \in Carrying(sentiment.label), o \in 1 .. Len(sentiment.scores) :
            /\ sentiment.scores[o].num <= sentiment.scores[j].num
            /\ (o # j /\ sentiment.scores[o].num = sentiment.scores[j].num)
                  => FirstContribution(sentiment.label)
                        < FirstContribution(sentiment.scores[o].key)

\* Two buckets tie, the one that wins got a later label as well.
C29_Witness ==
    /\ op_parity = 1
    /\ Len(raw_pairs) = 3
    /\ BucketKey(raw_pairs[1].label) = sentiment.label
    /\ BucketKey(raw_pairs[2].label) # sentiment.label
    /\ BucketKey(raw_pairs[3].label) = sentiment.label
    /\ \E o \in 1 .. Len(sentiment.scores) :
          /\ sentiment.scores[o].key # sentiment.label
          /\ \A j \in Carrying(sentiment.label) :
                sentiment.scores[o].num = sentiment.scores[j].num
                /\ sentiment.scores[j].num > 0

\* ------------------------------------------------------------------ claims on the cursor
\* C30: once the pool is initialised with N tokens, the cursor is in 0 .. N - 1 in
\* every state, whatever picks, marks and logical calls are made.
C30_CursorInRange == PoolReady => token_index \in 0 .. (PoolSize - 1)

\* The cursor has wrapped around: the last token was picked and the cursor is 0 again.
C30_Witness ==
    /\ PoolReady
    /\ PoolSize > 1
    /\ picked.idx = PoolSize - 1
    /\ token_index = 0
    /\ marked.idx # NoIndex

\* ------------------------------------------------------------------ claims on pick and mark
\* C31: while no token is cooling, consecutive picks return the tokens in cyclic
\* index order from the cursor on; N of them on a pool of N tokens return every
\* token exactly once and leave the cursor where it was before the first.
C31_FullCycle ==
    (PoolReady /\ run # <<>>) =>
        /\ Len(run) <= PoolSize
        /\ \A i \in 1 .. Len(run) : run[i] = (run_start + i - 1) % PoolSize
        /\ (Len(run) = PoolSize) =>
              /\ token_index = run_start
              /\ { run[i] : i \in 1 .. Len(run) } = Indices
              /\ \A i \in 1 .. Len(run), j \in 1 .. Len(run) : run[i] = run[j] => i = j

\* A full cycle over the largest pool, begun in the middle of it after a mark.
C31_Witness ==
    /\ PoolReady
    /\ PoolSize = MaxTokens
    /\ Len(run) = PoolSize
    /\ run_start # 0
    /\ marked.idx # NoIndex

\* C32: a mark of index i changes the cooldown of token i and nothing else of the
\* pool (cursor, token list, cooldown length, every other cooldown); a mark with an
\* index outside 0 .. N-1 returns without changing anything.
C32_MarkFrame ==
    [][\A i \in (0 - 1) .. MaxTokens :
          DirectMark(i) =>
             /\ token_index' = token_index
             /\ token_tokens' = token_tokens
             /\ token_cooldown_sec' = token_cooldown_sec
             /\ DOMAIN token_cooldowns' = DOMAIN token_cooldowns
             /\ \A j \in DOMAIN token_cooldowns :
                   j # i => token_cooldowns'[j] = token_cooldowns[j]
             /\ (i \notin Indices) => token_cooldowns' = token_cooldowns]_vars

\* A token of a pool of several was marked while another token is not cooling and
\* the cursor is not at 0.
C32_Witness ==
    /\ PoolSize >= 2
    /\ marked.idx \in Indices
    /\ last_mark[marked.idx] = now
    /\ token_cooldowns[marked.idx] > now
    /\ \E j \in Indices : j # marked.idx /\ token_cooldowns[j] = 0
    /\ token_index # 0

\* C33: a pick changes no cooldown of the pool it works on (the pool as
\* _init_token_pool_if_needed leaves it at the head of the call); a pick that
\* returns idx sets the cursor to (idx + 1) mod N and nothing else, and a pick that
\* fails because every token is cooling leaves cursor and cooldowns as they were.
C33_PickFrame ==
    [][(DirectPick /\ InitError = NoError) =>
          /\ token_cooldowns' = InitedCooldowns
          /\ token_tokens' = InitedTokens
          /\ token_cooldown_sec' = InitedCooldownSec
          /\ (picked'.idx # NoIndex) =>
                token_index' = (picked'.idx + 1) % Len(InitedTokens)
          /\ (picked'.idx = NoIndex) =>
                /\ picked'.err = PoolExhausted
                /\ \A j \in DOMAIN InitedCooldowns : InitedCooldowns[j] > now
                /\ token_index' = InitedIndex]_vars

\* The last token of a pool was picked while another token was cooling: the cursor
\* wrapped to 0 and the cooling token is still cooling.
C33_Witness ==
    /\ PoolSize >= 2
    /\ picked.idx = PoolSize - 1
    /\ token_index = 0
    /\ \E j \in Indices : token_cooldowns[j] > now

\* ------------------------------------------------------------------ claims on the top-1 buffers
\* C36: the score buffer and its time buffer have the same length, and entry i of
\* the score buffer is the score that was inserted at the clock reading held by
\* entry i of the time buffer, also after truncations.
C36_BuffersAligned ==
    /\ Len(emotion_top1_scores) = Len(emotion_top1_times)
    /\ \A i \in 1 .. Len(emotion_top1_scores) :
          /\ i <= Len(emotion_top1_times)
          /\ emotion_top1_times[i] \in 1 .. Len(top1_log)
          /\ emotion_top1_scores[i] = top1_log[emotion_top1_times[i]]

\* The buffers were truncated twice, and the oldest score kept differs from the
\* score of the insertion before it: a shift by one entry would show.
C36_Witness ==
    /\ perf_counter >= BufferCap + 1 + (BufferCap - BufferKeep) + 1
    /\ Len(emotion_top1_scores) < BufferCap
    /\ emotion_top1_times[1] > 1
    /\ emotion_top1_scores[1] # top1_log[emotion_top1_times[1] - 1]

\* ------------------------------------------------------------------ claims on what a request leaves
\* The texts of a raw batch that are not blank, stripped, in the order of the batch
KeptInOrder(raw) ==
    LET kept == SelectSeq(raw, LAMBDA t : Strip(t) # "")
    IN  [i \in 1 .. Len(kept) |-> Strip(kept[i])]

\* The request ended with a 500 raised for one of its texts
TextFailure == rpc = "ended" /\ http.status = 500 /\ http.detail # LocalFailure

\* The number of entries of the local result list whose text updated the store
RECURSIVE StoredBy(_)
StoredBy(rs) ==
    IF rs = <<>> THEN 0
    ELSE (IF Head(rs).stored THEN 1 ELSE 0) + StoredBy(Tail(rs))

\* C34: a batch analyses its non-blank texts in the order given; a 200 carries one
\* result for each of them, in that order; a 500 carries no result and ends the
\* request, no text after the failed one being analysed; and what the texts before
\* the failed one left (store updates, latency samples, cooldowns) is still there.
C34_BatchAllOrNothing ==
    /\ []((req.handler = "batch") =>
            /\ Len(batch_results) = results
            /\ results <= Len(req.texts)
            /\ req.texts = KeptInOrder(req.raw)
            /\ \A i \in 1 .. Len(batch_results) : batch_results[i].text = req.texts[i]
            /\ (http.status = 200) =>
                  /\ rpc = "ended"
                  /\ returned = KeptInOrder(req.raw)
            /\ (http.status = 500) =>
                  /\ rpc = "ended"
                  /\ returned = <<>>
            /\ (rpc # "ended") => returned = <<>>
            /\ TextFailure =>
                  /\ results < Len(req.texts)
                  /\ inference_count = at_receipt.inference_count + results + 1
                  /\ Len(inference_latencies_ms) >= Min(BufferKeep, results + 1)
                  /\ perf_counter >= results
                  /\ Len(user_states[ServedUser]) >=
                        at_receipt.updates + StoredBy(batch_results)
                  /\ \A i \in 1 .. Len(batch_results) :
                        \A j \in batch_results[i].marked :
                           /\ last_mark[j] # NoIndex
                           /\ token_cooldowns[j] >= last_mark[j] + Max(0, token_cooldown_sec))
    /\ [][(rpc = "ended") =>
             /\ results' = 0
             /\ batch_results' = <<>>
             /\ inference_count' = inference_count
             /\ user_states' = user_states
             /\ token_cooldowns' = token_cooldowns
             /\ token_index' = token_index]_vars

\* The second text of a batch of two failed after the first one had been
\* rate-limited once, had updated the store and had been counted.
C34_Witness ==
    /\ req.handler = "batch"
    /\ Len(req.texts) = 2
    /\ TextFailure
    /\ results = 1
    /\ batch_results[1].stored
    /\ batch_results[1].marked # {}
    /\ \E j \in batch_results[1].marked : token_cooldowns[j] > now

\* C35 as stated: the error count never exceeds the inference count, and when a
\* request has ended every one of its texts that passed validation has added one to
\* the inference count, a failed request one to the error count, a 400 nothing.
C35_EveryValidatedTextCounted ==
    /\ error_count <= inference_count
    /\ (rpc = "ended") =>
          /\ inference_count = at_receipt.inference_count + Len(req.texts)
          /\ error_count = at_receipt.error_count + (IF http.status = 500 THEN 1 ELSE 0)

\* C35, amended: the error count never exceeds the inference count; every text the
\* handler analyses, to a result or to a failure, adds one to the inference count
\* and one latency sample, and a failure one to the error count; a 400, a failed
\* preload of a batch and the texts after a failed one add nothing.
C35_EveryAnalysedTextCounted ==
    /\ [](/\ error_count <= inference_count
          /\ (inference_count <= BufferCap) => Len(inference_latencies_ms) = inference_count
          /\ (rpc = "ended") =>
                /\ inference_count =
                      at_receipt.inference_count + results + (IF TextFailure THEN 1 ELSE 0)
                /\ error_count =
                      at_receipt.error_count + (IF TextFailure THEN 1 ELSE 0)
                /\ (http.status = 400) => inference_count = at_receipt.inference_count)
    /\ [][/\ (results' = results + 1) =>
                /\ inference_count' = inference_count + 1
                /\ InsertedInto(inference_latencies_ms, inference_latencies_ms')
                /\ error_count' = error_count
          /\ (rpc = "text" /\ rpc' = "ended" /\ http'.status = 500) =>
                /\ inference_count' = inference_count + 1
                /\ InsertedInto(inference_latencies_ms, inference_latencies_ms')
                /\ error_count' = error_count + 1
          /\ (rpc # "text") => UNCHANGED metricsVars
          /\ (rpc = "text" /\ rpc' = "text" /\ results' = results) =>
                UNCHANGED metricsVars]_vars

\* A batch of two texts ended with the failure of its first text: one text was
\* counted, once as an inference and once as an error, the other not at all.
C35_Witness ==
    /\ req.handler = "batch"
    /\ Len(req.texts) = 2
    /\ TextFailure
    /\ results = 0
    /\ inference_count = at_receipt.inference_count + 1
    /\ error_count = at_receipt.error_count + 1
    /\ at_receipt.inference_count > 0

====
